---------------------------- MODULE Spec2Model ----------------------------
(***************************************************************************)
(* A model of backend/main.py of the file-search application.              *)
(*                                                                         *)
(* The module holds one specification per component:                       *)
(*   PathSpec    validate_and_resolve_path (the Path Validator)            *)
(*   SearchSpec  FileSearchEngine.search_files (the Search Engine)         *)
(*   Spec        analyze_directory and cancel_analysis over the registry   *)
(*               analysis_cancellations (the Cancellation Registry)        *)
(*   HashSpec    the duplicate detection of analyze_directory: bucketing   *)
(*               by size, quick_hash, grouping by digest                   *)
(*   NameSpec    the filename pattern of _create_filename_pattern applied  *)
(*               to one file name                                          *)
(*   TextSpec    _search_text_file and the member loop of                  *)
(*               _search_zip_file over one content                         *)
(*   ProbeSpec   _is_text_file and the read of _search_text_file over one  *)
(*               file                                                      *)
(*   WalkSpec    the directory walks of the two engines: _walk_directory   *)
(*               and phase 1 of analyze_directory over one tree            *)
(*   FlushSpec   the periodic commit of search_files over a long walk      *)
(*   CancelHashSpec  the hashing phase of analyze_directory under          *)
(*               cancel_analysis                                           *)
(*   DeleteSpec  delete_empty_directories over one request                 *)
(*                                                                         *)
(* A path string is a sequence of one-character strings, so that           *)
(* startswith, lstrip, split, substring tests and normpath work on         *)
(* characters exactly as the Python string operations do.                  *)
(***************************************************************************)
EXTENDS Integers, Sequences, FiniteSets, TLC

VARIABLES
    links,        \* the symbolic links of the filesystem: link path -> target path
    user_path,    \* the argument of the last validate_and_resolve_path call
    vresult,      \* its outcome
    vagain,       \* the outcome of validating the returned path once more
    \* FileSearchEngine.search_files: one search session
    s_pc,             \* "idle", "walk" (the async for loop), "finalize", "done"
    s_req,            \* the SearchRequest and whether a websocket was passed
    s_status,         \* SearchSession.status in the database
    s_total_files,    \* local total_files
    s_total_matches,  \* local total_matches
    s_db_files,       \* SearchSession.total_files_searched as committed
    s_db_matches,     \* SearchSession.total_matches as committed
    s_ws,             \* the websocket: "none", "open", or "gone" (send_json raises)
    s_walked,         \* files _walk_directory has yielded so far
    s_progress,       \* progress notifications sent
    s_results,        \* SearchResult rows added
    s_last,           \* of the file examined last: whether it failed, what it added to
                      \* total_matches, and what its parts that did not fail hold
    s_failed_seen,    \* some examined file failed in its handler
    s_broke,          \* the loop was left by the break of line 343
    s_raised,         \* search_files raised to its caller
    \* analyze_directory and cancel_analysis
    analysis_cancellations,  \* the module-level registry: session id -> cancelled flag
    tree,             \* the directory tree below /app/host_root
    an,               \* the state of each analyze_directory call
    reg_op,           \* the last operation on the registry and the registry before it
    \* the duplicate detection of analyze_directory
    h_pc,             \* "collect" (phase 1), "hashing" (phase 2), "grouping", "done"
    find_duplicates,  \* the request's find_duplicates
    max_hash_size,    \* the request's max_hash_size, in MB
    file_list,        \* file_list: the records collected, in collection order
    size_key_map,     \* size_key_map: the buckets by size, in insertion order
    files_to_hash,    \* files_to_hash: the records submitted to quick_hash
    pending,          \* the submitted records whose future has not been consumed yet
    file_hashes,      \* file_hashes: the records by digest, in insertion order
    duplicates,       \* the duplicate groups of the outcome
    \* filename mode: one file name tried against the pattern of a search
    n_pc,             \* "ready" before the name is tried, "done" after
    n_term,           \* request.search_term
    n_case,           \* request.case_sensitive
    n_name,           \* file_path.name
    n_matched,        \* whether search_pattern.search(file_path.name) found a match
    \* content mode: one text file, or one member of an archive, searched
    t_pc,             \* "ready" before the content is searched, "done" after
    t_where,          \* "file" (_search_text_file) or "member" (_search_zip_file)
    t_readable,       \* whether the content can be read
    t_content,        \* content
    t_term,           \* request.search_term
    t_case,           \* request.case_sensitive
    t_match_count,    \* SearchResult.match_count of the row added, 0 without a row
    t_details,        \* the MatchDetail rows added, with the offset each stands for
    t_returned,       \* what the handler adds to the match total
    \* content mode: one file reaching the last branch of the dispatch
    k_pc,             \* "ready", "text" once _is_text_file returned True, "done"
    k_file,           \* the file: its extension class, MIME guess, size and head
    k_probed,         \* the bytes _is_text_file read from the file
    k_read,           \* the bytes _search_text_file read from the file
    \* one traversal of a directory tree by one of the two engines
    w_pc,             \* "walk" while os.walk has directories left, "done" after
    w_engine,         \* "search" (_walk_directory) or "analysis" (phase 1)
    w_cfg,            \* the tree walked
    w_todo,           \* the directories os.walk has still to yield
    w_dirs,           \* the directories yielded
    w_files,          \* the files that reached the body of the engine's loop
    w_empty,          \* the directories recorded in empty_dirs
    w_outcome,        \* "none", "ok" or "http" (the analysis raised)
    \* delete_empty_directories: one request
    d_pc,             \* "idle", "start", "loop" (the for loop), "result", "done"
    d_req,            \* request["directories"]
    d_fs,             \* what each path below the base is on disk
    d_idx,            \* entries of the request the loop has gone through
    d_deleted,        \* deleted
    d_failed,         \* failed
    d_result          \* the response: none yet, the HTTP error, or the result

pvars == <<user_path, vresult, vagain>>
svars == <<s_pc, s_req, s_status, s_total_files, s_total_matches, s_db_files,
           s_db_matches, s_ws, s_walked, s_progress, s_results, s_last,
           s_failed_seen, s_broke, s_raised>>
avars == <<analysis_cancellations, tree, an, reg_op>>
hvars == <<h_pc, find_duplicates, max_hash_size, file_list, size_key_map, files_to_hash,
           pending, file_hashes, duplicates>>
nvars == <<n_pc, n_term, n_case, n_name, n_matched>>
\* the variables of the specifications of single functions
tvars == <<t_pc, t_where, t_readable, t_content, t_term, t_case, t_match_count, t_details,
           t_returned>>
kvars == <<k_pc, k_file, k_probed, k_read>>
wvars == <<w_pc, w_engine, w_cfg, w_todo, w_dirs, w_files, w_empty, w_outcome>>
dvars == <<d_pc, d_req, d_fs, d_idx, d_deleted, d_failed, d_result>>
yvars == <<wvars, dvars>>
xvars == <<nvars, tvars, kvars, yvars>>
vars == <<links, pvars, svars, avars, hvars, xvars>>

None == [none |-> TRUE]

-----------------------------------------------------------------------------
(* Bounds *)

\* longest user-supplied suffix, in characters
MaxPathLen == 4

\* most files one walk yields
MaxWalk == 3

\* most members of one archive
MaxMembers == 2

\* most occurrences of the pattern in one file or member
MaxOcc == 1

-----------------------------------------------------------------------------
(* Strings *)

SEP == "/"
NUL == "NUL"

\* "/app/host_root"
HostRoot == <<"/", "a", "p", "p", "/", "h", "o", "s", "t", "_", "r", "o", "o", "t">>

\* str.startswith
StartsWith(s, p) ==
    /\ Len(p) <= Len(s)
    /\ SubSeq(s, 1, Len(p)) = p

\* x in s, for a character x
HasChar(s, c) == \E i \in 1..Len(s) : s[i] = c

\* sub in s, for a string sub
Contains(s, sub) ==
    \E i \in 1..(Len(s) - Len(sub) + 1) : SubSeq(s, i, i + Len(sub) - 1) = sub

\* str.lstrip(c)
RECURSIVE LStrip(_, _)
LStrip(s, c) ==
    IF s # <<>> /\ Head(s) = c THEN LStrip(Tail(s), c) ELSE s

\* str.split(sep): the parts between separators, empty parts kept
RECURSIVE SplitFrom(_, _, _)
SplitFrom(s, sep, cur) ==
    IF s = <<>> THEN <<cur>>
    ELSE IF Head(s) = sep THEN <<cur>> \o SplitFrom(Tail(s), sep, <<>>)
    ELSE SplitFrom(Tail(s), sep, Append(cur, Head(s)))

Split(s, sep) == SplitFrom(s, sep, <<>>)

\* sep.join(parts)
RECURSIVE JoinParts(_)
JoinParts(parts) ==
    IF parts = <<>> THEN <<>>
    ELSE IF Len(parts) = 1 THEN parts[1]
    ELSE parts[1] \o <<SEP>> \o JoinParts(Tail(parts))

\* os.path.isabs (posix)
IsAbs(s) == s # <<>> /\ Head(s) = SEP

\* os.path.join(a, b) (posix)
PathJoin(a, b) ==
    IF IsAbs(b) THEN b
    ELSE IF a = <<>> \/ a[Len(a)] = SEP THEN a \o b
    ELSE a \o <<SEP>> \o b

\* the component stack of posixpath.normpath
RECURSIVE NormComps(_, _, _)
NormComps(comps, acc, initial_slashes) ==
    IF comps = <<>> THEN acc
    ELSE LET c == Head(comps) IN
         IF c = <<>> \/ c = <<".">> THEN NormComps(Tail(comps), acc, initial_slashes)
         ELSE IF c # <<".", ".">>
                 \/ (initial_slashes = 0 /\ acc = <<>>)
                 \/ (acc # <<>> /\ acc[Len(acc)] = <<".", ".">>)
              THEN NormComps(Tail(comps), Append(acc, c), initial_slashes)
         ELSE IF acc # <<>>
              THEN NormComps(Tail(comps), SubSeq(acc, 1, Len(acc) - 1), initial_slashes)
         ELSE NormComps(Tail(comps), acc, initial_slashes)

\* os.path.normpath (posix)
NormPath(path) ==
    IF path = <<>> THEN <<".">>
    ELSE LET initial_slashes ==
                 IF ~StartsWith(path, <<SEP>>) THEN 0
                 ELSE IF StartsWith(path, <<SEP, SEP>>) /\ ~StartsWith(path, <<SEP, SEP, SEP>>)
                      THEN 2 ELSE 1
             comps == NormComps(Split(path, SEP), <<>>, initial_slashes)
             body == JoinParts(comps)
             lead == [i \in 1..initial_slashes |-> SEP]
             out == lead \o body
         IN IF out = <<>> THEN <<".">> ELSE out

-----------------------------------------------------------------------------
(* The filesystem's symbolic links, as os.path.realpath sees them *)

\* the filesystems considered: no link, a link below the base that leaves it, a
\* link below the base that stays in it, and the base itself being a link
LinkConfigs ==
    { <<>>,
      (HostRoot \o <<"/", "a">>) :> <<"/", "e">>,
      (HostRoot \o <<"/", "a">>) :> (HostRoot \o <<"/", "a", "a">>),
      HostRoot :> <<"/", "h">> }

\* the non-empty components of a path
RECURSIVE NonEmpty(_)
NonEmpty(parts) ==
    IF parts = <<>> THEN <<>>
    ELSE IF Head(parts) = <<>> THEN NonEmpty(Tail(parts))
    ELSE <<Head(parts)>> \o NonEmpty(Tail(parts))

\* posixpath._joinrealpath on an absolute normalized path: every prefix that is a
\* link is replaced by the real path of its target
RECURSIVE JoinRealPath(_, _, _, _)
JoinRealPath(cur, comps, lk, fuel) ==
    IF comps = <<>> THEN cur
    ELSE LET newpath == PathJoin(cur, Head(comps)) IN
         IF newpath \in DOMAIN lk /\ fuel > 0
         THEN JoinRealPath(
                  JoinRealPath(<<SEP>>, NonEmpty(Split(lk[newpath], SEP)), lk, fuel - 1),
                  Tail(comps), lk, fuel - 1)
         ELSE JoinRealPath(newpath, Tail(comps), lk, fuel)

\* os.path.realpath / Path.resolve (non-strict)
RealPath(path, lk) == JoinRealPath(<<SEP>>, NonEmpty(Split(NormPath(path), SEP)), lk, 4)

-----------------------------------------------------------------------------
(* validate_and_resolve_path *)

Rejected(code) == [ok |-> FALSE, code |-> code, path |-> <<>>]
Accepted(path) == [ok |-> TRUE, code |-> 200, path |-> path]

\* the mutant of WithinBase: the prefix test without the separator
WithinBase_NoSep(path, base) == StartsWith(path, base)

\* lines 120 and 132: path.startswith(base + os.sep) or path == base
WithinBase(path, base) == StartsWith(path, base \o <<SEP>>) \/ path = base

\* lines 90-91: ".." in path_parts or any(".." in part for part in path_parts)
HasTraversalPart(clean_path) ==
    LET path_parts == Split(clean_path, SEP) IN
    \/ \E i \in 1..Len(path_parts) : path_parts[i] = <<".", ".">>
    \/ \E i \in 1..Len(path_parts) : Contains(path_parts[i], <<".", ".">>)

\* lines 80-112: the candidate path, or the rejection of the input
CandidatePath(p, base_path_str) ==
    IF StartsWith(p, HostRoot) THEN Accepted(p)
    ELSE LET clean_path == LStrip(p, SEP) IN
         IF HasTraversalPart(clean_path) THEN Rejected(400)
         ELSE IF HasChar(clean_path, "~") THEN Rejected(400)
         ELSE IF IsAbs(clean_path) THEN Rejected(400)
         ELSE Accepted(PathJoin(base_path_str, clean_path))

\* lines 54-143
validate_and_resolve_path(p, base_path, lk) ==
    LET base_path_str == RealPath(base_path, lk) IN
    IF HasChar(p, NUL) THEN Rejected(400)
    ELSE LET cand == CandidatePath(p, base_path_str) IN
         IF ~cand.ok THEN cand
         ELSE LET normalized_path == NormPath(cand.path) IN
              IF ~WithinBase(normalized_path, base_path_str) THEN Rejected(403)
              ELSE LET real_path == RealPath(normalized_path, lk)
                       real_base == RealPath(base_path_str, lk)
                   IN IF ~WithinBase(real_path, real_base) THEN Rejected(403)
                      ELSE Accepted(normalized_path)

-----------------------------------------------------------------------------
(* PathSpec: calls of validate_and_resolve_path with the base /app/host_root *)

PathAlphabet == {SEP, ".", "a", "~", NUL}

Suffixes == UNION { [1..n -> PathAlphabet] : n \in 0..MaxPathLen }

\* a request path: written from the root, or already carrying the base prefix
PathInputs ==
    Suffixes
      \cup { HostRoot \o s : s \in Suffixes }
      \cup { HostRoot \o <<"/", "a">> \o s : s \in Suffixes }

SearchIdle ==
    /\ s_pc = "idle"
    /\ s_req = None
    /\ s_status = "none"
    /\ s_total_files = 0
    /\ s_total_matches = 0
    /\ s_db_files = 0
    /\ s_db_matches = 0
    /\ s_ws = "none"
    /\ s_walked = 0
    /\ s_progress = 0
    /\ s_results = 0
    /\ s_last = None
    /\ s_failed_seen = FALSE
    /\ s_broke = FALSE
    /\ s_raised = FALSE

\* the concurrent analyze_directory calls considered
Analyses == {"A1", "A2"}

\* an analyze_directory call that has not been made yet
NotStarted ==
    [pc |-> "idle", session_id |-> "", min_size |-> <<>>, max_size |-> <<>>,
     todo |-> <<>>, files |-> <<>>, total_files |-> 0, total_dirs |-> 0,
     empty_dirs |-> <<>>, outcome |-> "none", code |-> 0, cancelled |-> FALSE,
     cancel_seen |-> "none"]

EmptyTree == [d \in {<<>>} |-> [dirs |-> <<>>, files |-> <<>>]]

AnalysisIdle ==
    /\ analysis_cancellations = <<>>
    /\ tree = EmptyTree
    /\ an = [a \in Analyses |-> NotStarted]
    /\ reg_op = None

\* no duplicate detection is under way
HashIdle ==
    /\ h_pc = "idle"
    /\ find_duplicates = FALSE
    /\ max_hash_size = 0
    /\ file_list = <<>>
    /\ size_key_map = <<>>
    /\ files_to_hash = <<>>
    /\ pending = {}
    /\ file_hashes = <<>>
    /\ duplicates = <<>>

\* no file name is being tried
NameIdle ==
    /\ n_pc = "idle"
    /\ n_term = <<>>
    /\ n_case = FALSE
    /\ n_name = <<>>
    /\ n_matched = FALSE

\* the specifications of single functions are at rest
\* no content is being searched
TextIdle ==
    /\ t_pc = "idle"
    /\ t_where = "file"
    /\ t_readable = FALSE
    /\ t_content = <<>>
    /\ t_term = <<>>
    /\ t_case = FALSE
    /\ t_match_count = 0
    /\ t_details = <<>>
    /\ t_returned = 0

\* no file is being classified
ProbeIdle ==
    /\ k_pc = "idle"
    /\ k_file = None
    /\ k_probed = 0
    /\ k_read = 0

\* no tree is being walked
WalkIdle ==
    /\ w_pc = "idle"
    /\ w_engine = "search"
    /\ w_cfg = None
    /\ w_todo = <<>>
    /\ w_dirs = <<>>
    /\ w_files = <<>>
    /\ w_empty = <<>>
    /\ w_outcome = "none"

DeleteIdle ==
    /\ d_pc = "idle"
    /\ d_req = <<>>
    /\ d_fs = <<>>
    /\ d_idx = 0
    /\ d_deleted = <<>>
    /\ d_failed = <<>>
    /\ d_result = <<>>

MoreIdle == WalkIdle /\ DeleteIdle

ExtraIdle == NameIdle /\ TextIdle /\ ProbeIdle /\ MoreIdle

PathInit ==
    /\ links \in LinkConfigs
    /\ user_path \in PathInputs
    /\ vresult = None
    /\ vagain = None
    /\ SearchIdle
    /\ AnalysisIdle
    /\ HashIdle
    /\ ExtraIdle

\* the pending call runs
ValidatePath ==
    /\ vresult = None
    /\ vresult' = validate_and_resolve_path(user_path, HostRoot, links)
    /\ UNCHANGED <<links, user_path, vagain, svars, avars, hvars, xvars>>

\* the path a call returned is validated once more
Revalidate ==
    /\ vresult # None
    /\ vresult.ok
    /\ vagain = None
    /\ vagain' = validate_and_resolve_path(vresult.path, HostRoot, links)
    /\ UNCHANGED <<links, user_path, vresult, svars, avars, hvars, xvars>>

PathNext == ValidatePath \/ Revalidate

PathSpec == PathInit /\ [][PathNext]_vars

\* the resolved base the validator compares against
BaseStr == RealPath(HostRoot, links)

Validated == vresult # None

(* C1: a call either fails or returns a normalized path that is the base or
   starts with base + separator; no returned path lies outside the base. *)
C1_ResultWithinBase ==
    (Validated /\ vresult.ok) =>
        /\ vresult.path = NormPath(vresult.path)
        /\ \/ vresult.path = BaseStr
           \/ /\ Len(vresult.path) > Len(BaseStr)
              /\ SubSeq(vresult.path, 1, Len(BaseStr) + 1) = BaseStr \o <<SEP>>

\* an accepted input that names a proper descendant through an input that needed
\* normalizing
C1_Witness ==
    /\ Validated /\ vresult.ok
    /\ Len(vresult.path) > Len(BaseStr)
    /\ user_path # vresult.path
    /\ HasChar(user_path, ".")

\* a segment of the input equal to ".."
HasDotDotSegment(p) ==
    LET parts == Split(p, SEP) IN \E i \in 1..Len(parts) : parts[i] = <<".", ".">>

\* the input, taken below the base, names a place outside it (by its text or
\* through a link)
ResolvesOutside(p) ==
    LET cand == IF StartsWith(p, HostRoot) THEN p ELSE PathJoin(BaseStr, LStrip(p, SEP))
        real == RealPath(cand, links)
    IN ~(real = BaseStr \/ StartsWith(real, BaseStr \o <<SEP>>))

(* C2: every input with a ".." segment, a leading "~", a null byte, or that
   resolves outside the base is rejected, inputs that already begin with
   /app/host_root included. *)
C2_RejectsAll ==
    (Validated /\ ( \/ HasDotDotSegment(user_path)
                    \/ StartsWith(user_path, <<"~">>)
                    \/ HasChar(user_path, NUL)
                    \/ ResolvesOutside(user_path) ))
        => ~vresult.ok


-----------------------------------------------------------------------------
(* FileSearchEngine.search_files *)

\* line 410: the counters are committed when total_files is a multiple of this
FlushEvery == 100

\* the mutant of SearchRoot: the resolved path is taken without the containment test
SearchRoot_Unchecked(local_path, lk) ==
    Accepted(RealPath(NormPath(PathJoin(HostRoot, LStrip(local_path, SEP))), lk))

\* lines 311-329: the search root of a request path, or its rejection
SearchRoot(local_path, lk) ==
    LET full_path == NormPath(PathJoin(HostRoot, LStrip(local_path, SEP)))
        real_base_path == RealPath(HostRoot, lk)
        real_full_path == RealPath(full_path, lk)
    IN IF ~StartsWith(real_full_path, real_base_path \o <<SEP>>)
          /\ real_full_path # real_base_path
       THEN Rejected(400)
       ELSE Accepted(real_full_path)

\* the directories that exist: the base, its child "a" and, outside the base, "/e"
PathExists(path, lk) ==
    path \in { RealPath(HostRoot, lk),
               RealPath(HostRoot, lk) \o <<"/", "a">>,
               <<"/", "e">> }

\* the request paths of the searches considered
SearchPaths ==
    { <<>>, <<"/", "a">>, <<"a", "a">>, <<".", ".">>, HostRoot \o <<"/", "a">>,
      <<"a", "/", ".", ".">> }

\* an archive member: "match" has a supported extension and holds one occurrence
\* of the pattern, "plain" has a supported extension and holds none, "bad" has a
\* supported extension and cannot be read, "skip" has another extension
Members == {"match", "plain", "bad", "skip"}

MemberLists == UNION { [1..n -> Members] : n \in 1..MaxMembers }

\* one walked file.  kind is what the extension dispatch of lines 377-403 sees; ok
\* is FALSE when the file cannot be opened or parsed (unreadable, corrupt archive,
\* malformed document); parser is FALSE when the document library is not installed;
\* insert_fails is TRUE when adding the filename-mode result row raises.
File(kind, ok, parser, occ, members, name_match, insert_fails) ==
    [kind |-> kind, ok |-> ok, parser |-> parser, occ |-> occ, members |-> members,
     name_match |-> name_match, insert_fails |-> insert_fails]

\* the files a walk may yield in content mode
ContentFiles ==
    { File("text", ok, TRUE, occ, <<>>, FALSE, FALSE) : ok \in BOOLEAN, occ \in 0..MaxOcc }
      \cup { File(k, TRUE, TRUE, 0, ms, FALSE, FALSE) : k \in {"zip", "tar"}, ms \in MemberLists }
      \cup { File(k, FALSE, TRUE, 0, <<"match">>, FALSE, FALSE) : k \in {"zip", "tar"} }
      \cup { File("office", ok, parser, MaxOcc, <<>>, FALSE, FALSE) :
                 ok \in BOOLEAN, parser \in BOOLEAN }
      \cup { File("other", TRUE, TRUE, 0, <<>>, FALSE, FALSE) }

\* the files a walk may yield in filename mode
NameFiles ==
    { File("text", TRUE, TRUE, MaxOcc, <<>>, nm, fails) : nm \in BOOLEAN, fails \in BOOLEAN }

\* the sum of what the readable, supported members of an archive hold
RECURSIVE MemberMatches(_)
MemberMatches(ms) ==
    IF ms = <<>> THEN 0
    ELSE (IF Head(ms) = "match" THEN 1 ELSE 0) + MemberMatches(Tail(ms))

\* lines 504-549: _search_text_file returns len(matches), or 0 from its except
search_text_file(f) == IF f.ok THEN f.occ ELSE 0

\* lines 551-687: _search_zip_file and _search_tar_file: a member that cannot be
\* read is skipped (inner except), an archive that cannot be opened gives 0
search_archive_file(f) == IF f.ok THEN MemberMatches(f.members) ELSE 0

\* lines 689-899: the office and ODF handlers return 0 when the library is
\* missing and from their except
search_office_file(f) == IF f.parser /\ f.ok THEN f.occ ELSE 0

\* the mutant of AfterFileError: the exception is raised again
AfterFileError_Raise == "raise"

\* lines 405-407: except Exception: print; continue
AfterFileError == "continue"

\* lines 376-403: the dispatch on the extension; every file reaches a handler or,
\* through the last elif, _is_text_file
ContentBody(f, req) ==
    LET matches ==
            IF f.kind \in {"zip", "tar"} /\ req.include_zip THEN search_archive_file(f)
            ELSE IF f.kind = "office" THEN search_office_file(f)
            ELSE IF f.kind = "text" THEN search_text_file(f)
            ELSE 0
    IN [exc |-> FALSE, add |-> matches, rows |-> IF matches > 0 THEN 1 ELSE 0,
        continued |-> FALSE, name_lines |-> <<>>, dispatched |-> TRUE]

\* the mutant of AfterNameCheck: the content search follows the name check
AfterNameCheck_FallThrough == "dispatch"

\* line 374: continue: the content search is skipped when searching filenames
AfterNameCheck == "continue"

\* lines 347-407: the body of the try for one file: whether an exception reached
\* the except of line 405, the matches added, the rows added, whether the
\* iteration ended in a continue (the flush of lines 410-413 is then skipped),
\* the line numbers of the match records of the filename branch, and whether the
\* file went on to the content dispatch
FileBody(f, req) ==
    IF req.filenames
    THEN IF f.name_match /\ f.insert_fails
         THEN [exc |-> TRUE, add |-> 0, rows |-> 0, continued |-> TRUE,
               name_lines |-> <<>>, dispatched |-> FALSE]
         ELSE LET hit == IF f.name_match THEN 1 ELSE 0
                  content == ContentBody(f, req)
              IN IF AfterNameCheck = "continue"
                 THEN [exc |-> FALSE, add |-> hit, rows |-> hit, continued |-> TRUE,
                       name_lines |-> IF f.name_match THEN <<0>> ELSE <<>>,
                       dispatched |-> FALSE]
                 ELSE \* not in the source
                      [content EXCEPT !.add = @ + hit, !.rows = @ + hit,
                                      !.name_lines = IF f.name_match THEN <<0>> ELSE <<>>]
    ELSE ContentBody(f, req)

\* the file failed in its handler: it, or one of its members, could not be read
Failed(f, req) ==
    IF req.filenames THEN f.name_match /\ f.insert_fails
    ELSE \/ f.kind \in {"text", "office"} /\ ~f.ok
         \/ f.kind = "office" /\ ~f.parser
         \/ f.kind \in {"zip", "tar"} /\ req.include_zip
              /\ (~f.ok \/ \E i \in 1..Len(f.members) : f.members[i] = "bad")

\* the occurrences held by the parts of f that did not fail
HealthyMatches(f, req) ==
    IF req.filenames THEN (IF f.name_match /\ ~f.insert_fails THEN 1 ELSE 0)
    ELSE IF f.kind \in {"zip", "tar"}
         THEN (IF req.include_zip /\ f.ok THEN MemberMatches(f.members) ELSE 0)
    ELSE IF f.kind = "other" THEN 0
    ELSE IF Failed(f, req) THEN 0 ELSE f.occ

Requests ==
    [search_path : SearchPaths, filenames : BOOLEAN, include_zip : BOOLEAN,
     websocket : BOOLEAN]

\* the mutant of RootAccepted: the existence of the root is not checked
RootAccepted_Unchecked(root, lk) == root.ok

\* lines 323-329: the root is within the base and exists
RootAccepted(root, lk) == root.ok /\ PathExists(root.path, lk)

\* lines 289-334: the session row is created as running, the root is resolved
StartSearch(req) ==
    /\ s_pc = "idle"
    /\ s_req' = req
    /\ s_ws' = IF req.websocket THEN "open" ELSE "none"
    /\ LET root == SearchRoot(req.search_path, links) IN
       IF RootAccepted(root, links)
       THEN /\ s_status' = "running"
            /\ s_pc' = "walk"
            /\ UNCHANGED s_raised
       ELSE \* lines 324/329 raise; lines 437-440 record the error and raise again
            /\ s_status' = "error"
            /\ s_pc' = "done"
            /\ s_raised' = TRUE
    /\ UNCHANGED <<s_total_files, s_total_matches, s_db_files, s_db_matches, s_walked,
                   s_progress, s_results, s_last, s_failed_seen, s_broke>>
    /\ UNCHANGED <<links, pvars, avars, hvars, xvars>>

\* the consumer of the websocket goes away: every later send_json raises
Disconnect ==
    /\ s_ws = "open"
    /\ s_pc \in {"walk", "finalize"}
    /\ s_ws' = "gone"
    /\ UNCHANGED <<s_pc, s_req, s_status, s_total_files, s_total_matches, s_db_files,
                   s_db_matches, s_walked, s_progress, s_results, s_last,
                   s_failed_seen, s_broke, s_raised>>
    /\ UNCHANGED <<links, pvars, avars, hvars, xvars>>

\* lines 334-413: one iteration of the loop over the file f the walker yields
NextFile(f) ==
    /\ s_pc = "walk"
    /\ s_walked < MaxWalk
    /\ s_walked' = s_walked + 1
    /\ IF s_ws = "gone"
       THEN \* lines 342-343: the progress send raised: break
            /\ s_broke' = TRUE
            /\ s_pc' = "finalize"
            /\ UNCHANGED <<s_status, s_total_files, s_total_matches, s_db_files,
                           s_db_matches, s_progress, s_results, s_last,
                           s_failed_seen, s_raised>>
       ELSE LET body == FileBody(f, s_req)
                total_files == s_total_files + 1
                total_matches == s_total_matches + body.add
            IN /\ s_progress' = IF s_ws = "open" THEN s_progress + 1 ELSE s_progress
               /\ s_total_files' = total_files
               /\ s_last' = [failed |-> Failed(f, s_req), added |-> body.add,
                              healthy |-> HealthyMatches(f, s_req),
                              name_match |-> f.name_match,
                              name_lines |-> body.name_lines,
                              dispatched |-> body.dispatched]
               /\ s_failed_seen' = (s_failed_seen \/ Failed(f, s_req))
               /\ UNCHANGED s_broke
               /\ IF body.exc /\ AfterFileError = "raise"
                  THEN \* not in the source: the except of line 405 always continues
                       /\ s_status' = "error"
                       /\ s_pc' = "done"
                       /\ s_raised' = TRUE
                       /\ UNCHANGED <<s_total_matches, s_results, s_db_files, s_db_matches>>
                  ELSE /\ s_total_matches' = total_matches
                       /\ s_results' = s_results + body.rows
                       /\ IF ~body.exc /\ ~body.continued /\ total_files % FlushEvery = 0
                          THEN /\ s_db_files' = total_files
                               /\ s_db_matches' = total_matches
                          ELSE UNCHANGED <<s_db_files, s_db_matches>>
                       /\ UNCHANGED <<s_status, s_pc, s_raised>>
    /\ UNCHANGED <<s_req, s_ws>>
    /\ UNCHANGED <<links, pvars, avars, hvars, xvars>>

\* the walker is exhausted: the loop ends
EndWalk ==
    /\ s_pc = "walk"
    /\ s_pc' = "finalize"
    /\ UNCHANGED <<s_req, s_status, s_total_files, s_total_matches, s_db_files,
                   s_db_matches, s_ws, s_walked, s_progress, s_results, s_last,
                   s_failed_seen, s_broke, s_raised>>
    /\ UNCHANGED <<links, pvars, avars, hvars, xvars>>

\* the mutant of FinalStatus: the finalization leaves the status as it was
FinalStatus_Unset == "running"

\* line 420: session.status
FinalStatus == "completed"

\* lines 415-435: the session is finalized and the session id returned
Finalize ==
    /\ s_pc = "finalize"
    /\ s_db_files' = s_total_files
    /\ s_db_matches' = s_total_matches
    /\ s_status' = FinalStatus
    /\ s_pc' = "done"
    /\ UNCHANGED <<s_req, s_total_files, s_total_matches, s_ws, s_walked, s_progress,
                   s_results, s_last, s_failed_seen, s_broke, s_raised>>
    /\ UNCHANGED <<links, pvars, avars, hvars, xvars>>

SearchInit ==
    /\ links \in LinkConfigs
    /\ user_path = <<>>
    /\ vresult = None
    /\ vagain = None
    /\ SearchIdle
    /\ AnalysisIdle
    /\ HashIdle
    /\ ExtraIdle

SearchNext ==
    \/ \E req \in Requests : StartSearch(req)
    \/ Disconnect
    \/ \E f \in (IF s_req # None /\ s_req.filenames THEN NameFiles ELSE ContentFiles) :
           NextFile(f)
    \/ EndWalk
    \/ Finalize

SearchSpec == SearchInit /\ [][SearchNext]_vars

(* C3: when the progress sink reports the consumer gone during a running search,
   the search examines no further file and the session ends with the terminal
   status cancelled, not completed, without raising. *)
C3_DisconnectCancels ==
    (s_pc = "done" /\ s_broke) =>
        /\ s_status = "cancelled"
        /\ ~s_raised
        /\ s_total_files < s_walked

(* C4: a failure while processing one file adds no match for what failed and
   never aborts the scan: the session does not end in error because of it and
   every file the walk yields afterwards is examined. *)
C4_FileFailureIsLocal ==
    /\ (s_last # None /\ s_last.failed) => s_last.added = s_last.healthy
    /\ s_failed_seen =>
           /\ s_status \in {"running", "completed"}
           /\ ~s_raised
           /\ (~s_broke => s_total_files = s_walked)

\* a search that met a failing file, went on to a later file that matched, and
\* completed
C4_Witness ==
    /\ s_pc = "done"
    /\ s_status = "completed"
    /\ s_failed_seen
    /\ s_total_files = MaxWalk
    /\ s_last # None /\ ~s_last.failed /\ s_last.added > 0

(* C15: in filename mode every file examined whose result row can be stored gives,
   when its name matches, exactly one result with one match record of line number
   0 and one more match in the total, and gives nothing otherwise; in either case
   the file does not reach the content dispatch. *)
C15_NameModeEmits ==
    [][(/\ s_pc = "walk"
        /\ s_req.filenames
        /\ s_total_files' = s_total_files + 1
        /\ ~s_last'.failed)
       => /\ ~s_last'.dispatched
          /\ IF s_last'.name_match
             THEN /\ s_results' = s_results + 1
                  /\ s_last'.name_lines = <<0>>
                  /\ s_total_matches' = s_total_matches + 1
             ELSE /\ s_results' = s_results
                  /\ s_last'.name_lines = <<>>
                  /\ s_total_matches' = s_total_matches]_vars

\* a filename search in which a file whose name does not match followed files whose
\* names matched: two results, two matches, no content dispatched
C15_Witness ==
    /\ s_req # None /\ s_req.filenames
    /\ s_total_files = 3
    /\ s_results = 2
    /\ s_total_matches = 2
    /\ s_last # None /\ ~s_last.name_match /\ ~s_last.dispatched /\ ~s_failed_seen


-----------------------------------------------------------------------------
(* File contents *)

(* The bytes of a file are kept run-length encoded: a sequence of <<byte, count>>
   runs with positive counts and different bytes in adjacent runs, so that equal
   byte strings have equal encodings and files of a megabyte stay small.       *)

BLen(b) == IF b = <<>> THEN 0 ELSE LET S[i \in 0..Len(b)] == IF i = 0 THEN 0 ELSE S[i - 1] + b[i][2]
                                   IN S[Len(b)]

\* a + b
BConcat(a, b) ==
    IF a = <<>> THEN b
    ELSE IF b = <<>> THEN a
    ELSE IF a[Len(a)][1] = b[1][1]
         THEN SubSeq(a, 1, Len(a) - 1) \o <<<<b[1][1], a[Len(a)][2] + b[1][2]>>>> \o Tail(b)
    ELSE a \o b

\* the bytes of b from offset start on (start >= 0)
RECURSIVE BDrop(_, _)
BDrop(b, start) ==
    IF b = <<>> \/ start = 0 THEN b
    ELSE IF b[1][2] <= start THEN BDrop(Tail(b), start - b[1][2])
    ELSE <<<<b[1][1], b[1][2] - start>>>> \o Tail(b)

\* the first n bytes of b, all of b when it is shorter
RECURSIVE BTake(_, _)
BTake(b, n) ==
    IF b = <<>> \/ n = 0 THEN <<>>
    ELSE IF b[1][2] <= n THEN <<b[1]>> \o BTake(Tail(b), n - b[1][2])
    ELSE <<<<b[1][1], n>>>>

\* f.seek(start); f.read(n)
BRead(b, start, n) == BTake(BDrop(b, start), n)

\* n copies of byte c
BRun(c, n) == IF n = 0 THEN <<>> ELSE <<<<c, n>>>>

Digit(d) == <<"0", "1", "2", "3", "4", "5", "6", "7", "8", "9">>[d + 1]

\* str(n).encode()
RECURSIVE Dec(_)
Dec(n) ==
    IF n < 10 THEN BRun(Digit(n), 1)
    ELSE BConcat(Dec(n \div 10), BRun(Digit(n % 10), 1))

-----------------------------------------------------------------------------
(* analyze_directory.quick_hash *)

\* line 1413: files below this size are hashed in full
FullHashLimit == 1048576

\* lines 1420-1430: the size of the head, middle and tail samples
SampleSize == 65536

\* line 1423: the middle sample is taken above this size
MiddleAbove == 131072

\* lines 1418-1430: the head, the middle and the tail sample of a file
Samples(content, file_size) ==
    BConcat(BRead(content, 0, SampleSize),
        BConcat(IF file_size > MiddleAbove
                    THEN BRead(content, file_size \div 2, SampleSize) ELSE <<>>,
                IF file_size > SampleSize
                    THEN BRead(content, BLen(content) - SampleSize, SampleSize)
                    ELSE <<>>))

\* the mutant of HashInput: every file is sampled, whatever its size
HashInput_Sampled(content, file_size) ==
    BConcat(Dec(file_size), Samples(content, file_size))

\* lines 1408-1430: the bytes fed to the digest: the size as decimal text, then the
\* whole content of a file below 1MB, else its samples
HashInput(content, file_size) ==
    BConcat(Dec(file_size),
        IF file_size < FullHashLimit THEN content ELSE Samples(content, file_size))

\* line 1432: the digest.  It is taken to be collision-free: the digest of an input
\* is the input itself, so two digests are equal exactly when the inputs are.
Digest(input) == input

\* lines 1400-1434
quick_hash(content, file_size) == Digest(HashInput(content, file_size))


-----------------------------------------------------------------------------
(* The cancellation registry, analyze_directory and cancel_analysis *)

(* An analysis is modelled step by step, one step per access to the registry, and
   a cancel_analysis call or a second analysis may take effect between any two
   steps: the registry is a module-level dictionary shared by every handler.    *)

\* line 1488: the per-file cancellation check runs when total_files is a multiple
\* of this
CheckEvery == 100

\* line 1394: analysis_cancellations[session_id] = False
Register(reg, id) == [k \in DOMAIN reg \cup {id} |-> IF k = id THEN FALSE ELSE reg[k]]

\* line 1690: del analysis_cancellations[session_id]
Unregister(reg, id) == [k \in DOMAIN reg \ {id} |-> reg[k]]

\* lines 1396-1398: analysis_cancellations.get(session_id, False)
is_cancelled(reg, id) == IF id \in DOMAIN reg THEN reg[id] ELSE FALSE

\* line 1391: the identifier generated for a call that brings none
Uuid(a) == IF a = "A1" THEN "u1" ELSE "u2"

Dir(dirs, files) == [dirs |-> dirs, files |-> files]
F(readable, size) == [readable |-> readable, size |-> size]

\* the directory the validated path names
RootDir == <<>>

\* the trees considered, each a function from a directory to its subdirectories and
\* files in listing order: a tree with a hidden directory and an unreadable file, a
\* tree with readable files and an empty directory, a tree with files at two levels
Trees ==
    { (RootDir :> Dir(<< <<"d">>, <<".", "h">> >>, <<>>))
          @@ (<<"d">> :> Dir(<<>>, <<F(FALSE, 20)>>))
          @@ (<<".", "h">> :> Dir(<<>>, <<F(TRUE, 20)>>)),
      (RootDir :> Dir(<< <<"e">> >>, <<F(TRUE, 3), F(TRUE, 20)>>))
          @@ (<<"e">> :> Dir(<<>>, <<>>)),
      (RootDir :> Dir(<< <<"d">> >>, <<F(FALSE, 20)>>))
          @@ (<<"d">> :> Dir(<<>>, <<F(TRUE, 3), F(TRUE, 20)>>)) }

\* lines 1442-1446: what the validated path names: the tree's root directory, the
\* regular file "f" below the base, or nothing
PathKind(validated_path) ==
    IF validated_path = HostRoot THEN "dir"
    ELSE IF validated_path = HostRoot \o <<"/", "f">> THEN "file"
    ELSE "missing"

\* the analyze_directory requests considered.  A session_id of "" is one not given
\* (line 1390), a min_size or max_size of <<>> is None, of <<n>> is n.
AnalysisRequests ==
    [path : {<<"/">>}, session_id : {"", "s1"}, min_size : {<<>>, <<10>>}, max_size : {<<>>}]
      \cup [path : {<<"/">>}, session_id : {""}, min_size : {<<>>}, max_size : {<<10>>}]
      \cup [path : {<<"/", "x">>, <<"/", "f">>, <<".", ".">>}, session_id : {"s1"},
            min_size : {<<>>}, max_size : {<<>>}]

\* the identifiers cancel_analysis is called with: one a client chose, one the
\* server generated, one that no analysis ever has
CancelIds == {"s1", "u1", "x"}

\* line 1473: the subdirectories that do not start with "."
RECURSIVE Visible(_)
Visible(dirs) ==
    IF dirs = <<>> THEN <<>>
    ELSE IF StartsWith(Head(dirs), <<".">>) THEN Visible(Tail(dirs))
    ELSE <<Head(dirs)>> \o Visible(Tail(dirs))

\* the analysis a ends by raising the HTTP error code
Raise(st, code) == [st EXCEPT !.pc = "finally", !.outcome = "http", !.code = code]

\* lines 1390-1463: the session is registered, the path validated, the collection
\* initialized
StartAnalysis(a, req) ==
    /\ an[a].pc = "idle"
    /\ LET session_id == IF req.session_id = "" THEN Uuid(a) ELSE req.session_id
           v == validate_and_resolve_path(req.path, HostRoot, links)
           st == [an[a] EXCEPT !.session_id = session_id,
                               !.min_size = req.min_size, !.max_size = req.max_size]
       IN /\ analysis_cancellations' = Register(analysis_cancellations, session_id)
          /\ reg_op' = [op |-> "register", id |-> session_id,
                        before |-> analysis_cancellations, resp |-> "none"]
          /\ an' = [an EXCEPT ![a] =
                        IF ~v.ok THEN Raise(st, v.code)
                        ELSE IF PathKind(v.path) = "missing" THEN Raise(st, 404)
                        ELSE IF PathKind(v.path) = "file" THEN Raise(st, 400)
                        ELSE [st EXCEPT !.pc = "walk", !.todo = <<RootDir>>]]
    /\ UNCHANGED <<tree, links, pvars, svars, hvars, xvars>>

\* lines 1466-1484: os.walk yields the next directory, or is exhausted
DirTop(a) ==
    /\ an[a].pc = "walk"
    /\ an' = [an EXCEPT ![a] =
                  IF an[a].todo = <<>> THEN [@ EXCEPT !.pc = "phase2"]
                  ELSE IF is_cancelled(analysis_cancellations, an[a].session_id)
                       THEN [@ EXCEPT !.pc = "phase2"]
                  ELSE LET root == Head(an[a].todo)
                           dirs == Visible(tree[root].dirs)
                           files == tree[root].files
                       IN [@ EXCEPT !.pc = "files",
                                    !.todo = dirs \o Tail(an[a].todo),
                                    !.files = files,
                                    !.total_dirs = @ + Len(dirs),
                                    !.empty_dirs =
                                        IF Len(files) = 0 /\ Len(dirs) = 0 /\ root # RootDir
                                        THEN Append(@, root) ELSE @]]
    /\ UNCHANGED <<analysis_cancellations, reg_op, tree, links, pvars, svars, hvars, xvars>>

\* lines 1486-1490: the next file of the directory and its cancellation check
FileCheck(a) ==
    /\ an[a].pc = "files"
    /\ an' = [an EXCEPT ![a] =
                  IF an[a].files = <<>> THEN [@ EXCEPT !.pc = "walk"]
                  ELSE IF /\ an[a].total_files % CheckEvery = 0
                          /\ is_cancelled(analysis_cancellations, an[a].session_id)
                       THEN [@ EXCEPT !.pc = "walk", !.files = <<>>]
                  ELSE [@ EXCEPT !.pc = "body"]]
    /\ UNCHANGED <<analysis_cancellations, reg_op, tree, links, pvars, svars, hvars, xvars>>

\* lines 1492-1541: the body of the loop for one file.  file_path is the string
\* os.path.join returns, so line 1511 raises AttributeError for every file that
\* reaches it; the except of line 1540 does not catch it, the one of line 1682
\* turns it into the HTTP error 500.
CollectFile(a) ==
    /\ an[a].pc = "body"
    /\ LET f == Head(an[a].files)
           skip == [an[a] EXCEPT !.pc = "files", !.files = Tail(@)]
       IN an' = [an EXCEPT ![a] =
                     IF ~f.readable THEN skip
                     ELSE IF an[a].min_size # <<>> /\ f.size < an[a].min_size[1] THEN skip
                     ELSE IF an[a].max_size # <<>> /\ f.size > an[a].max_size[1] THEN skip
                     ELSE Raise(an[a], 500)]
    /\ UNCHANGED <<analysis_cancellations, reg_op, tree, links, pvars, svars, hvars, xvars>>

\* lines 1545-1654: hashing, grouping and the statistics, over the file list phase
\* 1 collected; no step of it reads the registry
Phase2(a) ==
    /\ an[a].pc = "phase2"
    /\ an' = [an EXCEPT ![a].pc = "result"]
    /\ UNCHANGED <<analysis_cancellations, reg_op, tree, links, pvars, svars, hvars, xvars>>

\* lines 1656-1678: the flag is read and the outcome returned
Result(a) ==
    /\ an[a].pc = "result"
    /\ an' = [an EXCEPT ![a] =
                  [@ EXCEPT !.pc = "finally", !.outcome = "ok", !.code = 200,
                            !.cancelled = is_cancelled(analysis_cancellations,
                                                       an[a].session_id)]]
    /\ UNCHANGED <<analysis_cancellations, reg_op, tree, links, pvars, svars, hvars, xvars>>

\* the mutant of CleansUp: the registry is cleaned on a normal return only
CleansUp_OnReturnOnly(outcome) == outcome = "ok"

\* line 1687: the clean-up is a finally clause: it runs however the call ends
CleansUp(outcome) == TRUE

\* lines 1687-1690: the identifier is removed from the registry
Finally(a) ==
    /\ an[a].pc = "finally"
    /\ an' = [an EXCEPT ![a].pc = "done"]
    /\ IF CleansUp(an[a].outcome) /\ an[a].session_id \in DOMAIN analysis_cancellations
       THEN /\ analysis_cancellations' = Unregister(analysis_cancellations, an[a].session_id)
            /\ reg_op' = [op |-> "unregister", id |-> an[a].session_id,
                          before |-> analysis_cancellations, resp |-> "none"]
       ELSE UNCHANGED <<analysis_cancellations, reg_op>>
    /\ UNCHANGED <<tree, links, pvars, svars, hvars, xvars>>

\* the mutant of CancelAccepts: the flag is set without looking the identifier up
CancelAccepts_Any(reg, id) == TRUE

\* line 1798: session_id in analysis_cancellations
CancelAccepts(reg, id) == id \in DOMAIN reg

\* the steps of phase 1
Phase1 == {"walk", "files", "body"}

\* lines 1793-1802: cancel_analysis(id).  Each analysis remembers where it was when
\* a cancellation of its identifier was first accepted.
Cancel(id) ==
    /\ \E a \in Analyses : an[a].pc # "idle"
    /\ IF CancelAccepts(analysis_cancellations, id)
       THEN /\ analysis_cancellations' =
                   [k \in DOMAIN analysis_cancellations \cup {id} |->
                        IF k = id THEN TRUE ELSE analysis_cancellations[k]]
            /\ reg_op' = [op |-> "cancel", id |-> id, before |-> analysis_cancellations,
                          resp |-> "cancelled"]
            /\ an' = [a \in Analyses |->
                          IF /\ an[a].session_id = id
                             /\ an[a].pc \notin {"idle", "done"}
                             /\ an[a].cancel_seen = "none"
                          THEN [an[a] EXCEPT !.cancel_seen =
                                    IF an[a].pc \in Phase1 THEN "phase1" ELSE an[a].pc]
                          ELSE an[a]]
       ELSE /\ reg_op' = [op |-> "cancel", id |-> id, before |-> analysis_cancellations,
                          resp |-> "SessionNotFound"]
            /\ UNCHANGED <<analysis_cancellations, an>>
    /\ UNCHANGED <<tree, links, pvars, svars, hvars, xvars>>

Init ==
    /\ links = <<>>
    /\ user_path = <<>>
    /\ vresult = None
    /\ vagain = None
    /\ SearchIdle
    /\ analysis_cancellations = <<>>
    /\ tree \in Trees
    /\ an = [a \in Analyses |-> NotStarted]
    /\ reg_op = None
    /\ HashIdle
    /\ ExtraIdle

Next ==
    \/ \E a \in Analyses, req \in AnalysisRequests : StartAnalysis(a, req)
    \/ \E a \in Analyses : DirTop(a)
    \/ \E a \in Analyses : FileCheck(a)
    \/ \E a \in Analyses : CollectFile(a)
    \/ \E a \in Analyses : Phase2(a)
    \/ \E a \in Analyses : Result(a)
    \/ \E a \in Analyses : Finally(a)
    \/ \E id \in CancelIds : Cancel(id)

Spec == Init /\ [][Next]_vars


(* C5: when a cancellation of its session is accepted while an analysis is in
   phase 1, the analysis ends with a normal outcome whose cancelled flag is true,
   not with an error. *)
C5_CancelInPhase1ReturnsCancelled ==
    \A a \in Analyses :
        (an[a].pc = "done" /\ an[a].cancel_seen = "phase1") =>
            /\ an[a].outcome = "ok"
            /\ an[a].cancelled

(* C6: an identifier is in the registry only while an analysis with that
   identifier is running; once an analysis has ended, by a normal return, a
   validation error or an unexpected failure, its identifier is registered only if
   another analysis with the same identifier is still running. *)
C6_RegisteredOnlyWhileRunning ==
    /\ \A id \in DOMAIN analysis_cancellations :
           \E a \in Analyses : an[a].session_id = id /\ an[a].pc \notin {"idle", "done"}
    /\ (reg_op # None /\ reg_op.op = "unregister") =>
           reg_op.id \notin DOMAIN analysis_cancellations

\* both analyses have ended, one by the error of a failed validation or of a failed
\* file, the other by a normal return, and the registry is empty
C6_Witness ==
    /\ an["A1"].pc = "done" /\ an["A1"].outcome = "http"
    /\ an["A2"].pc = "done" /\ an["A2"].outcome = "ok"
    /\ analysis_cancellations = <<>>

(* C7: registering inserts the identifier with the flag false; cancelling sets the
   flag to true exactly when the identifier is registered, and otherwise reports
   SessionNotFound and leaves the registry unchanged. *)
C7_RegisterAndCancel ==
    /\ (reg_op # None /\ reg_op.op = "register") =>
           /\ DOMAIN analysis_cancellations = DOMAIN reg_op.before \cup {reg_op.id}
           /\ analysis_cancellations[reg_op.id] = FALSE
           /\ \A k \in DOMAIN reg_op.before \ {reg_op.id} :
                  analysis_cancellations[k] = reg_op.before[k]
    /\ (reg_op # None /\ reg_op.op = "cancel") =>
           IF reg_op.id \in DOMAIN reg_op.before
           THEN /\ reg_op.resp = "cancelled"
                /\ DOMAIN analysis_cancellations = DOMAIN reg_op.before
                /\ analysis_cancellations[reg_op.id] = TRUE
                /\ \A k \in DOMAIN reg_op.before \ {reg_op.id} :
                       analysis_cancellations[k] = reg_op.before[k]
           ELSE /\ reg_op.resp = "SessionNotFound"
                /\ analysis_cancellations = reg_op.before

\* a cancellation of one of two registered sessions has just been accepted and has
\* set the flag of that session only
C7_Witness ==
    /\ reg_op # None /\ reg_op.op = "cancel" /\ reg_op.resp = "cancelled"
    /\ reg_op.before = ("s1" :> FALSE) @@ ("u2" :> FALSE)
    /\ analysis_cancellations = ("s1" :> TRUE) @@ ("u2" :> FALSE)


-----------------------------------------------------------------------------
(* HashSpec: the duplicate detection of analyze_directory *)

(* The steps of analyze_directory that find duplicates, taken on their own: the
   record of a file is added to file_list and bucketed by size (lines 1515-1538),
   the buckets with several records are hashed in parallel (lines 1545-1580) and
   the records are grouped by digest (lines 1589-1609).  The records are those of
   files for which the loop body has got as far as line 1515; with the file_path
   of line 1493 it does not (see CollectFile).                                  *)

\* most files one directory holds
MaxFiles == 4

NoHash == <<>>

\* a file of the given size that holds byte c at offset at and "a" everywhere else;
\* it can be opened for hashing unless it is gone by then
Mostly(size, at, c, gone) ==
    [size |-> size,
     content |-> BConcat(BRun("a", at), BConcat(BRun(c, 1), BRun("a", size - at - 1))),
     gone |-> gone]

\* the files a directory may hold: an empty file; a file of 196609 bytes that begins
\* with "0"; a file of 1966090 bytes; two files of 1MB less one byte and two of 1MB,
\* the second of each pair differing from the first in one byte that lies outside
\* the head, middle and tail windows; a file of 1MB less one byte that is removed
\* before it is hashed
Pool ==
    << [size |-> 0, content |-> <<>>, gone |-> FALSE],
       Mostly(196609, 0, "0", FALSE),
       Mostly(1966090, 0, "a", FALSE),
       Mostly(FullHashLimit - 1, 0, "a", FALSE),
       Mostly(FullHashLimit - 1, 100000, "b", FALSE),
       Mostly(FullHashLimit, 0, "a", FALSE),
       Mostly(FullHashLimit, 100000, "b", FALSE),
       Mostly(FullHashLimit - 1, 0, "a", TRUE) >>

\* lines 1400-1434: quick_hash of each file of the pool; None for a file that cannot
\* be opened (line 1434)
PoolHash ==
    [k \in 1..Len(Pool) |->
         IF Pool[k].gone THEN NoHash ELSE quick_hash(Pool[k].content, Pool[k].size)]

\* the samples of each file of the pool
PoolSamples == [k \in 1..Len(Pool) |-> Samples(Pool[k].content, Pool[k].size)]

\* the position of the bucket of a size in size_key_map, 0 when there is none
BucketOf(map, size) ==
    IF \E n \in 1..Len(map) : map[n].size = size
    THEN CHOOSE n \in 1..Len(map) : map[n].size = size
    ELSE 0

\* lines 1536-1538: size_key_map[file_size].append(file_info)
AddToBucket(map, size, i) ==
    LET n == BucketOf(map, size) IN
    IF n = 0 THEN Append(map, [size |-> size, files |-> <<i>>])
    ELSE [map EXCEPT ![n].files = Append(@, i)]

\* lines 1515-1538: the record of a file of kind k is collected.  A record is known
\* by its position in file_list.
Collect(k) ==
    /\ h_pc = "collect"
    /\ Len(file_list) < MaxFiles
    /\ LET file_size == Pool[k].size
           i == Len(file_list) + 1
           max_hash_bytes == max_hash_size * 1024 * 1024
       IN /\ file_list' = Append(file_list, [kind |-> k, size |-> file_size, hash |-> NoHash])
          /\ size_key_map' =
                 IF find_duplicates /\ file_size > 0 /\ file_size <= max_hash_bytes
                 THEN AddToBucket(size_key_map, file_size, i)
                 ELSE size_key_map
    /\ UNCHANGED <<h_pc, find_duplicates, max_hash_size, files_to_hash, pending,
                   file_hashes, duplicates>>
    /\ UNCHANGED <<links, pvars, svars, avars, xvars>>

\* the mutant of NeedsHash: only a bucket with three records or more is hashed
NeedsHash_Three(file_infos) == Len(file_infos) > 2

\* the mutant of NeedsHash: every bucket is hashed
NeedsHash_Any(file_infos) == Len(file_infos) > 0

\* line 1552: only a bucket with several records is hashed
NeedsHash(file_infos) == Len(file_infos) > 1

\* lines 1551-1553: the records of the buckets to hash, bucket after bucket
RECURSIVE FilesToHash(_)
FilesToHash(map) ==
    IF map = <<>> THEN <<>>
    ELSE (IF NeedsHash(Head(map).files) THEN Head(map).files ELSE <<>>)
             \o FilesToHash(Tail(map))

\* lines 1543-1563: the walk is over; the candidates are submitted to the pool
StartHashing ==
    /\ h_pc = "collect"
    /\ h_pc' = "hashing"
    /\ files_to_hash' = IF find_duplicates THEN FilesToHash(size_key_map) ELSE <<>>
    /\ pending' = { files_to_hash'[n] : n \in 1..Len(files_to_hash') }
    /\ UNCHANGED <<find_duplicates, max_hash_size, file_list, size_key_map, file_hashes,
                   duplicates>>
    /\ UNCHANGED <<links, pvars, svars, avars, xvars>>

\* the position of the entry of a digest in file_hashes, 0 when there is none
EntryOf(hashes, h) ==
    IF \E n \in 1..Len(hashes) : hashes[n].hash = h
    THEN CHOOSE n \in 1..Len(hashes) : hashes[n].hash = h
    ELSE 0

\* line 1572: file_hashes[file_hash].append(file_info)
AddToHashes(hashes, h, i) ==
    LET n == EntryOf(hashes, h) IN
    IF n = 0 THEN Append(hashes, [hash |-> h, files |-> <<i>>])
    ELSE [hashes EXCEPT ![n].files = Append(@, i)]

\* lines 1566-1572: as_completed yields the future of record i, in whatever order
\* the workers finish
CompleteOne(i) ==
    /\ h_pc = "hashing"
    /\ i \in pending
    /\ pending' = pending \ {i}
    /\ LET file_hash == PoolHash[file_list[i].kind] IN
       IF file_hash # NoHash
       THEN /\ file_list' = [file_list EXCEPT ![i].hash = file_hash]
            /\ file_hashes' = AddToHashes(file_hashes, file_hash, i)
       ELSE UNCHANGED <<file_list, file_hashes>>
    /\ UNCHANGED <<h_pc, find_duplicates, max_hash_size, size_key_map, files_to_hash,
                   duplicates>>
    /\ UNCHANGED <<links, pvars, svars, avars, xvars>>

\* lines 1594-1606: the group of one entry of file_hashes
Group(entry) ==
    LET group_size == file_list[entry.files[1]].size
        wasted_space == group_size * (Len(entry.files) - 1)
    IN [hash |-> entry.hash, count |-> Len(entry.files), size |-> group_size,
        wasted_space |-> wasted_space, files |-> entry.files]

\* lines 1593-1606: the groups of the entries with several records
RECURSIVE Groups(_)
Groups(hashes) ==
    IF hashes = <<>> THEN <<>>
    ELSE (IF Len(Head(hashes).files) > 1 THEN <<Group(Head(hashes))>> ELSE <<>>)
             \o Groups(Tail(hashes))

\* g put into a list sorted by wasted_space, largest first, behind its equals
RECURSIVE InsertByWaste(_, _)
InsertByWaste(sorted, g) ==
    IF sorted = <<>> THEN <<g>>
    ELSE IF Head(sorted).wasted_space >= g.wasted_space
         THEN <<Head(sorted)>> \o InsertByWaste(Tail(sorted), g)
    ELSE <<g>> \o sorted

\* the mutant of SortByWaste: the groups stay in the order of file_hashes
SortByWaste_Unsorted(groups) == groups

\* line 1609: duplicates.sort(key=wasted_space, reverse=True), a stable sort
RECURSIVE SortByWaste(_)
SortByWaste(groups) ==
    IF groups = <<>> THEN <<>>
    ELSE InsertByWaste(SortByWaste(SubSeq(groups, 1, Len(groups) - 1)), groups[Len(groups)])

\* lines 1580-1609: every future has been consumed; the groups are built and sorted
BuildResult ==
    /\ h_pc = "hashing"
    /\ pending = {}
    /\ h_pc' = "done"
    /\ duplicates' = IF find_duplicates THEN SortByWaste(Groups(file_hashes)) ELSE <<>>
    /\ UNCHANGED <<find_duplicates, max_hash_size, file_list, size_key_map, files_to_hash,
                   pending, file_hashes>>
    /\ UNCHANGED <<links, pvars, svars, avars, xvars>>

\* the requests considered: with and without duplicate detection, hashing files of
\* up to 1MB or up to 10MB (the default)
HashInit ==
    /\ links = <<>>
    /\ user_path = <<>>
    /\ vresult = None
    /\ vagain = None
    /\ SearchIdle
    /\ AnalysisIdle
    /\ h_pc = "collect"
    /\ find_duplicates \in BOOLEAN
    /\ max_hash_size \in {1, 10}
    /\ file_list = <<>>
    /\ size_key_map = <<>>
    /\ files_to_hash = <<>>
    /\ pending = {}
    /\ file_hashes = <<>>
    /\ duplicates = <<>>
    /\ ExtraIdle

HashNext ==
    \/ \E k \in 1..Len(Pool) : Collect(k)
    \/ StartHashing
    \/ \E i \in 1..MaxFiles : CompleteOne(i)
    \/ BuildResult

HashSpec == HashInit /\ [][HashNext]_vars


\* the records submitted to quick_hash
Submitted == { files_to_hash[n] : n \in 1..Len(files_to_hash) }

\* the positions of the records collected
Collected == 1..Len(file_list)

(* C8: a record is submitted for hashing, and has its hash filled in, only if
   another collected record has exactly the same size; the hash of a record whose
   size is unique stays absent. *)
C8_HashedOnlyOnSizeCollision ==
    \A i \in Collected :
        (i \in Submitted \/ file_list[i].hash # NoHash) =>
            \E j \in Collected \ {i} : file_list[j].size = file_list[i].size

\* an analysis has ended in which two records of one size were hashed and a third
\* record, of a size of its own, was not
C8_Witness ==
    /\ h_pc = "done"
    /\ Len(file_list) = 3
    /\ file_list[1].size = file_list[2].size
    /\ file_list[1].hash # NoHash /\ file_list[2].hash # NoHash
    /\ file_list[3].size # file_list[1].size
    /\ file_list[3].size > 0
    /\ 3 \notin Submitted /\ file_list[3].hash = NoHash

\* the records of group g
GroupFiles(g) == { g.files[n] : n \in 1..Len(g.files) }

(* C9: every duplicate group of the outcome has at least two members, all of the
   size the group reports, and wastes size * (count - 1) bytes. *)
C9_GroupsAreUniform ==
    h_pc = "done" =>
        \A n \in 1..Len(duplicates) :
            LET g == duplicates[n] IN
            /\ g.count >= 2
            /\ g.count = Cardinality(GroupFiles(g))
            /\ \A i \in GroupFiles(g) : file_list[i].size = g.size
            /\ g.wasted_space = g.size * (g.count - 1)

\* records i and j are members of one duplicate group
CoGrouped(i, j) ==
    \E n \in 1..Len(duplicates) : {i, j} \subseteq GroupFiles(duplicates[n])

\* records i and j have the same size and different contents
SameSizeDiffer(i, j) ==
    /\ file_list[i].size = file_list[j].size
    /\ Pool[file_list[i].kind].content # Pool[file_list[j].kind].content

\* C10 as the claim states it: no two files of one size of at most 1MB, 1MB itself
\* included, with different contents are members of one group
C10_Original ==
    \A i, j \in Collected :
        (SameSizeDiffer(i, j) /\ file_list[i].size <= FullHashLimit) => ~CoGrouped(i, j)

(* C10: with a collision-free digest, two files of the same size below 1MB whose
   contents differ are never members of one duplicate group; two files of one
   size with different contents are co-grouped only if they are of 1MB or more
   and their head, middle and tail samples are the same. *)
C10_FullHashBelowLimit ==
    \A i, j \in Collected :
        SameSizeDiffer(i, j) =>
            /\ file_list[i].size < FullHashLimit => ~CoGrouped(i, j)
            /\ CoGrouped(i, j) =>
                   /\ file_list[i].size >= FullHashLimit
                   /\ PoolSamples[file_list[i].kind] = PoolSamples[file_list[j].kind]

\* an analysis has ended in which two files of 1MB less one byte with different
\* contents were both hashed, and one of them is grouped with a copy of itself
C10_Witness ==
    /\ h_pc = "done"
    /\ Len(file_list) = 3
    /\ file_list[1].size = FullHashLimit - 1
    /\ SameSizeDiffer(1, 2)
    /\ file_list[1].hash # NoHash /\ file_list[2].hash # NoHash
    /\ CoGrouped(1, 3)
    /\ ~CoGrouped(1, 2)

(* C11: the duplicate groups of the outcome are ordered by wasted space, largest
   first: each group wastes at least as much as the group that follows it. *)
C11_GroupsSortedByWaste ==
    h_pc = "done" =>
        \A n \in 1..(Len(duplicates) - 1) :
            duplicates[n].wasted_space >= duplicates[n + 1].wasted_space

\* an analysis has ended with two groups of different wasted space, of which the
\* one found first in file_hashes wastes less and is returned second
C11_Witness ==
    /\ h_pc = "done"
    /\ Len(duplicates) = 2
    /\ duplicates[1].wasted_space > duplicates[2].wasted_space
    /\ file_hashes[1].hash = duplicates[2].hash

-----------------------------------------------------------------------------
(* NameSpec: the filename pattern of a search, tried against one file name *)

\* longest search term, in characters
MaxTermLen == 3

\* longest file name, in characters
MaxNameLen == 3

NL == "\n"

\* str.lower on the letters used here
Lower(c) ==
    IF c = "A" THEN "a" ELSE IF c = "B" THEN "b" ELSE IF c = "X" THEN "x" ELSE c

\* lines 457-464: the compiled pattern as a list of items: a wildcard "*" becomes
\* ".*", a wildcard "?" becomes ".", every other character is escaped and stands
\* for itself; a term without wildcards is escaped as a whole
RECURSIVE PatternItems(_)
PatternItems(term) ==
    IF term = <<>> THEN <<>>
    ELSE <<(IF Head(term) = "*" THEN [kind |-> "dotstar", c |-> ""]
            ELSE IF Head(term) = "?" THEN [kind |-> "dot", c |-> ""]
            ELSE [kind |-> "lit", c |-> Head(term)])>> \o PatternItems(Tail(term))

\* lines 447-467: _create_filename_pattern
create_filename_pattern(search_term, case_sensitive) ==
    [items |-> PatternItems(search_term), ignorecase |-> ~case_sensitive]

\* one character against one literal of the pattern, under the pattern's flags
CharMatches(pattern, c, x) ==
    IF pattern.ignorecase THEN Lower(c) = Lower(x) ELSE c = x

\* the items match a prefix of s; when anchored, all of s.  "." matches any
\* character but a line break.
RECURSIVE MatchHere(_, _, _, _)
MatchHere(pattern, items, s, anchored) ==
    IF items = <<>> THEN (~anchored \/ s = <<>>)
    ELSE LET it == Head(items) IN
         IF it.kind = "dotstar"
         THEN \E k \in 0..Len(s) :
                  /\ \A n \in 1..k : s[n] # NL
                  /\ MatchHere(pattern, Tail(items), SubSeq(s, k + 1, Len(s)), anchored)
         ELSE /\ s # <<>>
              /\ IF it.kind = "dot" THEN Head(s) # NL ELSE CharMatches(pattern, it.c, Head(s))
              /\ MatchHere(pattern, Tail(items), Tail(s), anchored)

\* line 350: search_pattern.search(file_path.name): a match that starts anywhere
\* in the name and ends anywhere
PatternSearch(pattern, s) ==
    \E start \in 0..Len(s) :
        MatchHere(pattern, pattern.items, SubSeq(s, start + 1, Len(s)), FALSE)

\* the name as a shell wildcard pattern sees it: the whole name has to match
ShellMatch(search_term, case_sensitive, name) ==
    LET pattern == create_filename_pattern(search_term, case_sensitive)
    IN MatchHere(pattern, pattern.items, name, TRUE)

HasWildcard(term) == HasChar(term, "*") \/ HasChar(term, "?")

\* the search terms considered: every short term over a small alphabet, and the
\* two patterns "*.log" and "rep?rt"
Terms ==
    UNION { [1..n -> {"*", "?", "a", "."}] : n \in 0..MaxTermLen }
      \cup { <<"*", ".", "l", "o", "g">>, <<"r", "e", "p", "?", "r", "t">> }

\* the file names considered: every short name that _walk_directory yields (line
\* 476: no leading "."), and access.log, error.log, access.log.gz, report, repXrt,
\* reprt
Names ==
    { s \in UNION { [1..n -> {"a", "A", "."}] : n \in 1..MaxNameLen } : s[1] # "." }
      \cup { <<"a", "c", "c", "e", "s", "s", ".", "l", "o", "g">>,
             <<"e", "r", "r", "o", "r", ".", "l", "o", "g">>,
             <<"a", "c", "c", "e", "s", "s", ".", "l", "o", "g", ".", "g", "z">>,
             <<"r", "e", "p", "o", "r", "t">>,
             <<"r", "e", "p", "X", "r", "t">>,
             <<"r", "e", "p", "r", "t">> }

NameInit ==
    /\ links = <<>>
    /\ user_path = <<>>
    /\ vresult = None
    /\ vagain = None
    /\ SearchIdle
    /\ AnalysisIdle
    /\ HashIdle
    /\ n_pc = "ready"
    /\ n_term \in Terms
    /\ n_case \in BOOLEAN
    /\ n_name \in Names
    /\ n_matched = FALSE
    /\ TextIdle
    /\ ProbeIdle
    /\ MoreIdle

\* lines 307 and 350: the pattern is created and the name tried against it
MatchName ==
    /\ n_pc = "ready"
    /\ n_pc' = "done"
    /\ n_matched' = PatternSearch(create_filename_pattern(n_term, n_case), n_name)
    /\ UNCHANGED <<n_term, n_case, n_name>>
    /\ UNCHANGED <<links, pvars, svars, avars, hvars, tvars, kvars, yvars>>

NameNext == MatchName

NameSpec == NameInit /\ [][NameNext]_vars

(* C12: in filename mode a pattern with wildcards matches a file name as a shell
   wildcard over the whole name: "*" stands for zero or more characters, "?" for
   exactly one, every other character for itself; so "*.log" does not match
   access.log.gz. *)
C12_ShellWildcard ==
    (n_pc = "done" /\ HasWildcard(n_term)) =>
        (n_matched <=> ShellMatch(n_term, n_case, n_name))

-----------------------------------------------------------------------------
(* TextSpec: the content of one text file or archive member, searched *)

\* longest content, in characters
MaxContentLen == 4

\* longest run of one letter tried as content
MaxRun == 12

\* line 530: the match records kept for one top-level file
FileDetailCap == 10

\* lines 589 and 664: the match records kept for one archive member
MemberDetailCap == 5

\* lines 442-445: _create_search_pattern: the term escaped, every character
\* standing for itself
create_search_pattern(search_term, case_sensitive) ==
    [items |-> [n \in 1..Len(search_term) |-> [kind |-> "lit", c |-> search_term[n]]],
     ignorecase |-> ~case_sensitive]

\* the pattern matches the content at offset start (counted from 0)
MatchesAt(pattern, content, start) ==
    MatchHere(pattern, pattern.items, SubSeq(content, start + 1, Len(content)), FALSE)

\* lines 510 and 574: pattern.finditer(content) from offset from on: the offsets of
\* the matches, leftmost first, none overlapping the one before
RECURSIVE FindIter(_, _, _)
FindIter(pattern, content, from) ==
    IF \E start \in from..Len(content) : MatchesAt(pattern, content, start)
    THEN LET start == CHOOSE st \in from..Len(content) :
                          /\ MatchesAt(pattern, content, st)
                          /\ \A lower \in from..(st - 1) : ~MatchesAt(pattern, content, lower)
             end == start + Len(pattern.items)
         IN <<start>> \o FindIter(pattern, content, IF end > start THEN end ELSE start + 1)
    ELSE <<>>

\* content[:start].count('\n')
CountBreaks(content, start) == Cardinality({ n \in 1..start : content[n] = NL })

\* content.rfind('\n', 0, start): the offset of the last line break before start,
\* -1 when there is none
RFindBreak(content, start) ==
    IF \E n \in 1..start : content[n] = NL
    THEN (CHOOSE n \in 1..start :
              content[n] = NL /\ \A later \in (n + 1)..start : content[later] # NL) - 1
    ELSE -1

\* lines 531 and 590: line_num
LineOf(content, start) == CountBreaks(content, start) + 1

\* the mutant of ColumnOf: the line break itself is counted
ColumnOf_FromBreak(content, start) == start - RFindBreak(content, start)

\* lines 538 and 597: match_position
ColumnOf(content, start) == start - RFindBreak(content, start) - 1

\* lines 532 and 585: lines[line_num - 1] if line_num <= len(lines) else ""
LineContent(lines, line_num) == IF line_num <= Len(lines) THEN lines[line_num] ELSE <<>>

\* lines 534-541 and 587-592: the MatchDetail of the match at offset start
Detail(content, lines, start) ==
    [start |-> start,
     line_number |-> LineOf(content, start),
     line_content |-> LineContent(lines, LineOf(content, start)),
     match_position |-> ColumnOf(content, start)]

\* the mutant of FirstMatches: every match is kept
FirstMatches_All(matches, cap) == matches

\* lines 530 and 580: matches[:cap]
FirstMatches(matches, cap) ==
    SubSeq(matches, 1, IF Len(matches) < cap THEN Len(matches) ELSE cap)

\* n times the letter c
Run(c, n) == [k \in 1..n |-> c]

\* the contents considered: every short content over a small alphabet, the runs of
\* "a", and the three lines alpha, Beta, gamma beta
Contents ==
    UNION { [1..n -> {"a", "B", NL}] : n \in 0..MaxContentLen }
      \cup { Run("a", n) : n \in 1..MaxRun }
      \cup { <<"a", "l", "p", "h", "a", NL, "B", "e", "t", "a", NL,
               "g", "a", "m", "m", "a", " ", "b", "e", "t", "a">> }

\* the search terms considered
TextTerms ==
    { <<>>, <<"a">>, <<"b">>, <<"a", "a">>, <<"a", "b">>, <<NL>>, <<"b", NL>>,
      <<"b", "e", "t", "a">> }

TextInit ==
    /\ links = <<>>
    /\ user_path = <<>>
    /\ vresult = None
    /\ vagain = None
    /\ SearchIdle
    /\ AnalysisIdle
    /\ HashIdle
    /\ NameIdle
    /\ ProbeIdle
    /\ MoreIdle
    /\ t_pc = "ready"
    /\ t_where \in {"file", "member"}
    /\ t_readable \in BOOLEAN
    /\ t_content \in Contents
    /\ t_term \in TextTerms
    /\ t_case \in BOOLEAN
    /\ t_match_count = 0
    /\ t_details = <<>>
    /\ t_returned = 0

\* lines 504-549 (_search_text_file) and lines 570-603 (one member in
\* _search_zip_file): the content is read and searched; a result row and the
\* details of the first matches are added when there is a match.  Content that
\* cannot be read raises inside the try: nothing is added.
SearchContent ==
    /\ t_pc = "ready"
    /\ t_pc' = "done"
    /\ LET pattern == create_search_pattern(t_term, t_case)
           matches == FindIter(pattern, t_content, 0)
           lines == Split(t_content, NL)
           cap == IF t_where = "file" THEN FileDetailCap ELSE MemberDetailCap
           kept == FirstMatches(matches, cap)
       IN IF ~t_readable \/ matches = <<>>
          THEN UNCHANGED <<t_match_count, t_details, t_returned>>
          ELSE /\ t_match_count' = Len(matches)
               /\ t_details' = [n \in 1..Len(kept) |-> Detail(t_content, lines, kept[n])]
               /\ t_returned' = Len(matches)
    /\ UNCHANGED <<t_where, t_readable, t_content, t_term, t_case>>
    /\ UNCHANGED <<links, pvars, svars, avars, hvars, nvars, kvars, yvars>>

TextNext == SearchContent

TextSpec == TextInit /\ [][TextNext]_vars

\* the lines of the content searched, as content.split('\n') gives them
ContentLines == Split(t_content, NL)

\* the offset in the content at which line k begins
LineStart(k) ==
    LET S[j \in 1..k] == IF j = 1 THEN 0 ELSE S[j - 1] + Len(ContentLines[j - 1]) + 1
    IN S[k]

(* C13: every match record of a text holds the line and column of its match: the
   line number is one more than the line breaks before the match, it names a line
   of the newline-split content, the stored line is that line, and the column is
   the distance of the match from the start of that line, within the line. *)
C13_LineAndColumn ==
    \A n \in 1..Len(t_details) :
        LET d == t_details[n] IN
        /\ d.line_number = CountBreaks(t_content, d.start) + 1
        /\ d.line_number \in 1..Len(ContentLines)
        /\ d.line_content = ContentLines[d.line_number]
        /\ d.match_position \in 0..Len(d.line_content)
        /\ LineStart(d.line_number) + d.match_position = d.start

\* alpha / Beta / gamma beta searched for "beta" without regard to case gave the
\* records (line 2, column 0) and (line 3, column 6), and no other
C13_Witness ==
    /\ t_pc = "done"
    /\ Len(t_content) = 21
    /\ Len(t_details) = 2
    /\ t_details[1].line_number = 2 /\ t_details[1].match_position = 0
    /\ t_details[2].line_number = 3 /\ t_details[2].match_position = 6

\* the offsets of the content at which the term occurs, overlapping ones included
Occurrences ==
    { start \in 0..Len(t_content) :
          MatchesAt(create_search_pattern(t_term, t_case), t_content, start) }

(* C14: at most 10 match records are stored for a top-level file and at most 5
   for a member of an archive; the match count of the result is never smaller
   than the number of records stored and never larger than the number of
   occurrences of the term in the content. *)
C14_RecordsCapped ==
    /\ t_where = "file" => Len(t_details) <= 10
    /\ t_where = "member" => Len(t_details) <= 5
    /\ t_pc = "done" =>
           /\ Len(t_details) <= t_match_count
           /\ t_match_count <= Cardinality(Occurrences)
           /\ t_returned = t_match_count

\* a member with 12 matches, 5 of them recorded
C14_Witness ==
    /\ t_pc = "done"
    /\ t_where = "member"
    /\ t_match_count = 12
    /\ Len(t_details) = 5

\* the statuses that end a session
TerminalStatuses == {"completed", "cancelled", "error"}

(* C16: the status of a session is running from its creation until the call
   ends; a terminal status, once recorded, never changes; a call that has
   returned left completed or cancelled, a call that has raised left error. *)
C16_StatusMachine ==
    [][/\ s_status \in TerminalStatuses => s_status' = s_status
       /\ s_pc' \in {"walk", "finalize"} => s_status' = "running"
       /\ s_pc' = "done" =>
              /\ s_status' \in TerminalStatuses
              /\ s_raised' <=> s_status' = "error"]_vars

\* a search that examined files, was finalized and returned
C16_Witness ==
    /\ s_pc = "done"
    /\ ~s_raised
    /\ s_status = "completed"
    /\ s_total_files > 0

\* the root of the request is outside the base
RootEscapes == ~SearchRoot(s_req.search_path, links).ok

\* the root of the request is within the base and is not there
RootAbsent ==
    /\ SearchRoot(s_req.search_path, links).ok
    /\ ~PathExists(SearchRoot(s_req.search_path, links).path, links)

(* C17: a search whose root escapes the base or does not exist fails before the
   traversal: the call raises, no file is walked or examined, no progress
   notification is sent, no checkpoint and no result is written, and the session
   ends with the status error. *)
C17_BadRootFailsEarly ==
    (s_req # None /\ (RootEscapes \/ RootAbsent)) =>
        /\ s_pc = "done"
        /\ s_raised
        /\ s_status = "error"
        /\ s_walked = 0
        /\ s_total_files = 0
        /\ s_progress = 0
        /\ s_db_files = 0 /\ s_db_matches = 0
        /\ s_results = 0 /\ s_total_matches = 0

\* a search with a websocket whose root escapes the base has raised
C17_Witness ==
    /\ s_req # None
    /\ RootEscapes
    /\ s_req.websocket
    /\ s_pc = "done"
    /\ s_raised
    /\ s_status = "error"

(* C18: validating an accepted result again succeeds and returns it unchanged. *)
C18_Idempotent ==
    vagain # None => (vagain.ok /\ vagain.path = vresult.path)

(* C19: an analysis of a valid, existing directory never ends in a failure of the
   whole operation because of one of its files: an analysis ends by raising only
   when its path was rejected (400, 403), missing (404) or not a directory (400),
   and otherwise returns its outcome. *)
C19_FileNeverFatal ==
    \A a \in Analyses :
        an[a].pc = "done" =>
            \/ an[a].outcome = "ok"
            \/ an[a].outcome = "http" /\ an[a].code \in {400, 403, 404}

-----------------------------------------------------------------------------
(* ProbeSpec: one file classified by _is_text_file and read by _search_text_file *)

\* line 491: the size above which a file of unknown type is not probed
ProbeSizeLimit == 10485760

\* line 495: the bytes read to probe a file of unknown type
ProbeChunk == 1024

\* the files considered: the extension is one of supported_text_extensions or not,
\* the MIME type guessed from the name starts with "text" or not, the first bytes
\* decode as UTF-8 or not, the file can be opened or not
ProbeFiles ==
    [ext_supported : BOOLEAN, mime_text : BOOLEAN, utf8_head : BOOLEAN,
     readable : BOOLEAN,
     size : {0, ProbeChunk, ProbeChunk + 1, ProbeSizeLimit - 1, ProbeSizeLimit,
             ProbeSizeLimit + 1}]

\* lines 479-502: _is_text_file
is_text_file(f) ==
    IF f.ext_supported THEN TRUE
    ELSE IF f.mime_text THEN TRUE
    ELSE IF ~f.readable THEN FALSE
    ELSE IF f.size > ProbeSizeLimit THEN FALSE
    ELSE f.utf8_head

\* line 495: f.read(1024), for a file that reaches the probe
ProbeRead(f) ==
    IF f.ext_supported \/ f.mime_text \/ ~f.readable \/ f.size > ProbeSizeLimit THEN 0
    ELSE IF f.size < ProbeChunk THEN f.size ELSE ProbeChunk

ProbeInit ==
    /\ links = <<>>
    /\ user_path = <<>>
    /\ vresult = None
    /\ vagain = None
    /\ SearchIdle
    /\ AnalysisIdle
    /\ HashIdle
    /\ NameIdle
    /\ TextIdle
    /\ MoreIdle
    /\ k_pc = "ready"
    /\ k_file \in ProbeFiles
    /\ k_probed = 0
    /\ k_read = 0

\* lines 400-401: elif self._is_text_file(file_path)
IsTextFile ==
    /\ k_pc = "ready"
    /\ k_pc' = IF is_text_file(k_file) THEN "text" ELSE "done"
    /\ k_probed' = ProbeRead(k_file)
    /\ UNCHANGED <<k_file, k_read>>
    /\ UNCHANGED <<links, pvars, svars, avars, hvars, nvars, tvars, yvars>>

\* lines 506-508: _search_text_file opens the file and reads the whole of it with
\* f.read(); a file that cannot be opened raises into the except of line 546
ReadTextFile ==
    /\ k_pc = "text"
    /\ k_pc' = "done"
    /\ k_read' = IF k_file.readable THEN k_file.size ELSE 0
    /\ UNCHANGED <<k_file, k_probed>>
    /\ UNCHANGED <<links, pvars, svars, avars, hvars, nvars, tvars, yvars>>

ProbeNext == IsTextFile \/ ReadTextFile

ProbeSpec == ProbeInit /\ [][ProbeNext]_vars

(* C20: no file larger than 10MB is read in full for matching: whichever way a
   file was taken for text, what is read of it is at most 10MB. *)
C20_NoFullReadAbove10MB ==
    /\ k_read <= 10485760
    /\ k_read > 0 => k_file.size <= 10485760

-----------------------------------------------------------------------------
(* WalkSpec: one directory tree traversed by _walk_directory or by phase 1 of
   analyze_directory *)

NodeModules == <<"n", "o", "d", "e", "_", "m", "o", "d", "u", "l", "e", "s">>
PyCache == <<"_", "_", "p", "y", "c", "a", "c", "h", "e", "_", "_">>
DotGit == <<".", "g", "i", "t">>

\* line 473: the directory names _walk_directory never descends into
SearchExcluded == {NodeModules, PyCache, DotGit}

\* the names the directories below the root may have, in listing order
TopDirNames == << <<"d">>, <<".", "h">>, NodeModules, PyCache >>

\* the names files may have, in listing order
FileNames == << <<"f">>, <<".", "f">> >>

\* the trees considered: the root holds any of the four directories and any of the
\* two files; every directory below the root holds the same files (inner) and,
\* when nested, the hidden subdirectory ".s", which holds the file "f"
WalkTrees ==
    [top : SUBSET {TopDirNames[n] : n \in 1..Len(TopDirNames)},
     files : SUBSET {FileNames[n] : n \in 1..Len(FileNames)},
     inner : SUBSET {FileNames[n] : n \in 1..Len(FileNames)},
     nested : BOOLEAN]

\* the members of the set among the names, in listing order
Listed(names, set) == SelectSeq(names, LAMBDA x : x \in set)

\* os.walk's (dirs, files) for the directory at path, a sequence of names from the
\* root
Listing(cfg, path) ==
    IF path = <<>> THEN Dir(Listed(TopDirNames, cfg.top), Listed(FileNames, cfg.files))
    ELSE IF Len(path) = 1
         THEN Dir(IF cfg.nested THEN << <<".", "s">> >> ELSE <<>>,
                  Listed(FileNames, cfg.inner))
    ELSE Dir(<<>>, << <<"f">> >>)

\* str.startswith('.')
Hidden(name) == StartsWith(name, <<".">>)

\* line 473 and line 1473: dirs[:] = [...]: the subdirectories os.walk descends into
KeptDirs(engine, dirs) ==
    SelectSeq(dirs, LAMBDA d :
        IF engine = "search" THEN ~Hidden(d) /\ d \notin SearchExcluded
        ELSE ~Hidden(d))

\* lines 475-477 and line 1486: the files of a directory that reach the body of
\* the engine's loop
KeptFiles(engine, files) ==
    SelectSeq(files, LAMBDA f : IF engine = "search" THEN ~Hidden(f) ELSE TRUE)

WalkInit ==
    /\ links = <<>>
    /\ user_path = <<>>
    /\ vresult = None
    /\ vagain = None
    /\ SearchIdle
    /\ AnalysisIdle
    /\ HashIdle
    /\ NameIdle
    /\ TextIdle
    /\ ProbeIdle
    /\ DeleteIdle
    /\ w_pc = "walk"
    /\ w_engine \in {"search", "analysis"}
    /\ w_cfg \in WalkTrees
    /\ w_todo = << <<>> >>
    /\ w_dirs = <<>>
    /\ w_files = <<>>
    /\ w_empty = <<>>
    /\ w_outcome = "none"

\* lines 471-477 (_walk_directory) and lines 1466-1541 (phase 1): os.walk yields
\* the next directory; its subdirectories are pruned; the analysis records it when
\* it looks empty; its files go through the loop.  In the analysis every file is
\* readable and within the size filters here, so the first one raises at line 1511
\* and the call ends with the HTTP error 500.
WalkDir ==
    /\ w_pc = "walk"
    /\ w_todo # <<>>
    /\ LET root == Head(w_todo)
           listing == Listing(w_cfg, root)
           dirs == KeptDirs(w_engine, listing.dirs)
           files == KeptFiles(w_engine, listing.files)
           paths == [n \in 1..Len(files) |-> Append(root, files[n])]
           raises == w_engine = "analysis" /\ files # <<>>
       IN /\ w_dirs' = Append(w_dirs, root)
          /\ w_empty' = IF /\ w_engine = "analysis"
                           /\ Len(listing.files) = 0 /\ Len(dirs) = 0 /\ root # <<>>
                        THEN Append(w_empty, root) ELSE w_empty
          /\ w_files' = w_files \o (IF raises THEN <<paths[1]>> ELSE paths)
          /\ w_todo' = IF raises THEN <<>>
                       ELSE [n \in 1..Len(dirs) |-> Append(root, dirs[n])] \o Tail(w_todo)
          /\ w_pc' = IF raises THEN "done" ELSE "walk"
          /\ w_outcome' = IF raises THEN "http" ELSE "none"
    /\ UNCHANGED <<w_engine, w_cfg>>
    /\ UNCHANGED <<links, pvars, svars, avars, hvars, nvars, tvars, kvars, dvars>>

\* os.walk is exhausted
WalkEnd ==
    /\ w_pc = "walk"
    /\ w_todo = <<>>
    /\ w_pc' = "done"
    /\ w_outcome' = "ok"
    /\ UNCHANGED <<w_engine, w_cfg, w_todo, w_dirs, w_files, w_empty>>
    /\ UNCHANGED <<links, pvars, svars, avars, hvars, nvars, tvars, kvars, dvars>>

WalkNext == WalkDir \/ WalkEnd

WalkSpec == WalkInit /\ [][WalkNext]_vars

\* the names a traversal must keep away from
Skipped(name) == Hidden(name) \/ name \in {NodeModules, PyCache}

(* C21: neither engine visits a file whose name starts with "." or a file below a
   directory whose name starts with "." or is one of the excluded names. *)
C21_SameWalkerRules ==
    \A n \in 1..Len(w_files) :
        \A k \in 1..Len(w_files[n]) : ~Skipped(w_files[n][k])

(* C22: the analysis records a directory as an empty-directory candidate exactly
   when it is visited, is not the root of the scan and holds no file and no
   subdirectory at all, hidden ones included. *)
C22_EmptyDirCandidates ==
    w_engine = "analysis" =>
        \A n \in 1..Len(w_dirs) :
            LET d == w_dirs[n] IN
            (\E k \in 1..Len(w_empty) : w_empty[k] = d)
                <=> /\ d # <<>>
                    /\ Listing(w_cfg, d).files = <<>>
                    /\ Listing(w_cfg, d).dirs = <<>>

\* what the Path Validator makes of the root of the request
ValidatorOnRoot == validate_and_resolve_path(s_req.search_path, HostRoot, links)

(* C23: the search accepts a root exactly when validate_and_resolve_path accepts
   it: a root the validator rejects makes the search fail before the traversal,
   and a root it accepts is resolved by the search to the path the validator
   returns. *)
C23_SearchUsesValidator ==
    s_req # None =>
        /\ ~ValidatorOnRoot.ok => (s_raised /\ s_walked = 0 /\ s_pc = "done")
        /\ ValidatorOnRoot.ok =>
               /\ SearchRoot(s_req.search_path, links).ok
               /\ SearchRoot(s_req.search_path, links).path = ValidatorOnRoot.path

-----------------------------------------------------------------------------
(* FlushSpec: search_files over a directory of more than a hundred files, without
   a websocket *)

\* the files examined in a long search
MaxExamined == 101

\* the files a long walk may yield: in content mode a text file with one match and
\* a file no handler takes, in filename mode the files of NameFiles
FlushFiles(req) ==
    IF req.filenames THEN NameFiles
    ELSE { File("text", TRUE, TRUE, 1, <<>>, FALSE, FALSE),
           File("other", TRUE, TRUE, 0, <<>>, FALSE, FALSE) }

FlushInit ==
    /\ links = <<>>
    /\ user_path = <<>>
    /\ vresult = None
    /\ vagain = None
    /\ AnalysisIdle
    /\ HashIdle
    /\ ExtraIdle
    /\ s_pc = "walk"
    /\ s_req \in [search_path : {<<>>}, filenames : BOOLEAN, include_zip : {TRUE},
                  websocket : {FALSE}]
    /\ s_status = "running"
    /\ s_total_files = 0
    /\ s_total_matches = 0
    /\ s_db_files = 0
    /\ s_db_matches = 0
    /\ s_ws = "none"
    /\ s_walked = 0
    /\ s_progress = 0
    /\ s_results = 0
    /\ s_last = None
    /\ s_failed_seen = FALSE
    /\ s_broke = FALSE
    /\ s_raised = FALSE

\* lines 334-413 without a websocket: one iteration of the loop over the file f
ExamineFile(f) ==
    /\ s_pc = "walk"
    /\ s_walked < MaxExamined
    /\ s_walked' = s_walked + 1
    /\ LET body == FileBody(f, s_req)
           total_files == s_total_files + 1
           total_matches == s_total_matches + body.add
       IN /\ s_total_files' = total_files
          /\ s_total_matches' = total_matches
          /\ s_results' = s_results + body.rows
          /\ IF ~body.exc /\ ~body.continued /\ total_files % FlushEvery = 0
             THEN /\ s_db_files' = total_files
                  /\ s_db_matches' = total_matches
             ELSE UNCHANGED <<s_db_files, s_db_matches>>
    /\ UNCHANGED <<s_pc, s_req, s_status, s_ws, s_progress, s_last, s_failed_seen,
                   s_broke, s_raised>>
    /\ UNCHANGED <<links, pvars, avars, hvars, xvars>>

FlushNext ==
    \/ \E f \in FlushFiles(s_req) : ExamineFile(f)
    \/ EndWalk
    \/ Finalize

FlushSpec == FlushInit /\ [][FlushNext]_vars

(* C24: each time the count of examined files reaches a multiple of 100 the
   counters are flushed, in content mode and in filename mode alike: while the
   walk runs the persisted file count is at most 99 behind the running count, and
   at a multiple of 100 the persisted counters are the running ones. *)
C24_FlushedEvery100 ==
    s_pc = "walk" =>
        /\ s_total_files - s_db_files <= 99
        /\ s_total_files % 100 = 0 =>
               (s_db_files = s_total_files /\ s_db_matches = s_total_matches)

\* record i has the size of another collected record
SharesSize(i) == \E j \in Collected \ {i} : file_list[j].size = file_list[i].size

\* C25 as the claim states it: with duplicate detection every record that shares
\* its size is submitted, whatever the size
C25_Original ==
    (h_pc \in {"hashing", "done"} /\ find_duplicates) =>
        \A i \in Collected : SharesSize(i) => i \in Submitted

(* C25: with duplicate detection enabled, every collected record of more than 0
   bytes and of at most max_hash_size MB that shares its size with another
   collected record is submitted for hashing; empty files and files above
   max_hash_size MB are not submitted. *)
C25_CandidatesSubmitted ==
    (h_pc \in {"hashing", "done"} /\ find_duplicates) =>
        \A i \in Collected :
            IF file_list[i].size > 0 /\ file_list[i].size <= max_hash_size * 1048576
            THEN SharesSize(i) => i \in Submitted
            ELSE i \notin Submitted

\* two empty files and two files of 1966090 bytes were collected with a limit of
\* 10MB: the large ones were submitted, the empty ones were not
C25_Witness ==
    /\ h_pc = "hashing"
    /\ find_duplicates
    /\ max_hash_size = 10
    /\ Len(file_list) = 4
    /\ file_list[1].size = 0 /\ file_list[2].size = 0
    /\ file_list[3].size = 1966090 /\ file_list[4].size = 1966090
    /\ Submitted = {3, 4}

-----------------------------------------------------------------------------
(* CancelHashSpec: the duplicate detection of one analysis registered as "s1",
   with cancel_analysis("s1") arriving at any moment *)

\* the session identifier of the analysis
HashSession == "s1"

\* the kinds of the pool collected here: the two files of 1MB less one byte
CancelPool == {4, 5}

CancelHashInit ==
    /\ links = <<>>
    /\ user_path = <<>>
    /\ vresult = None
    /\ vagain = None
    /\ SearchIdle
    /\ analysis_cancellations = Register(<<>>, HashSession)
    /\ tree = EmptyTree
    /\ an = [a \in Analyses |-> NotStarted]
    /\ reg_op = None
    /\ h_pc = "collect"
    /\ find_duplicates = TRUE
    /\ max_hash_size = 10
    /\ file_list = <<>>
    /\ size_key_map = <<>>
    /\ files_to_hash = <<>>
    /\ pending = {}
    /\ file_hashes = <<>>
    /\ duplicates = <<>>
    /\ ExtraIdle

\* lines 1793-1800: cancel_analysis(session_id) for the registered identifier
CancelHashing ==
    /\ h_pc \in {"collect", "hashing"}
    /\ HashSession \in DOMAIN analysis_cancellations
    /\ ~analysis_cancellations[HashSession]
    /\ analysis_cancellations' = [analysis_cancellations EXCEPT ![HashSession] = TRUE]
    /\ UNCHANGED <<tree, an, reg_op>>
    /\ UNCHANGED <<links, pvars, svars, hvars, xvars>>

CancelHashNext ==
    \/ \E k \in CancelPool : Collect(k)
    \/ StartHashing
    \/ \E i \in 1..MaxFiles : CompleteOne(i)
    \/ BuildResult
    \/ CancelHashing

CancelHashSpec == CancelHashInit /\ [][CancelHashNext]_vars

(* C26: once the cancellation flag of the session is set, phase 2 submits no
   further hashing work and collects no further digest: a candidate not submitted
   by then is never hashed and the analysis does not wait for the hashing. *)
C26_NoHashingAfterCancel ==
    [][is_cancelled(analysis_cancellations, HashSession) =>
           /\ files_to_hash' = files_to_hash
           /\ file_hashes' = file_hashes]_vars

\* file_hashes as it is when the futures complete in the order of submission
RECURSIVE InOrderHashes(_)
InOrderHashes(submitted) ==
    IF submitted = <<>> THEN <<>>
    ELSE LET i == submitted[Len(submitted)]
             before == InOrderHashes(SubSeq(submitted, 1, Len(submitted) - 1))
             file_hash == PoolHash[file_list[i].kind]
         IN IF file_hash # NoHash THEN AddToHashes(before, file_hash, i) ELSE before

\* the groups of a list as a set: digest, size, members and wasted space
GroupSet(groups) ==
    { [hash |-> groups[n].hash, size |-> groups[n].size,
       files |-> GroupFiles(groups[n]), wasted_space |-> groups[n].wasted_space] :
          n \in 1..Len(groups) }

\* the entries of file_hashes that hold record i
EntriesWith(i) ==
    { <<n, k>> \in (1..Len(file_hashes)) \X (1..MaxFiles + 1) :
          k <= Len(file_hashes[n].files) /\ file_hashes[n].files[k] = i }

(* C27: the duplicate groups do not depend on the order in which the workers
   complete: whatever the order, the set of groups is the one obtained when the
   futures complete in the order of submission, and the digest of each candidate
   is recorded exactly once. *)
C27_OrderIndependent ==
    h_pc = "done" =>
        /\ GroupSet(duplicates) = GroupSet(Groups(InOrderHashes(files_to_hash)))
        /\ \A i \in Submitted :
               Cardinality(EntriesWith(i)) = (IF file_list[i].hash # NoHash THEN 1 ELSE 0)

\* the analysis a has registered its identifier and has not ended
Running(a) == an[a].pc \notin {"idle", "done"}

(* C28: a cancellation flag is monotone for the life of its analysis: while an
   analysis runs, no step turns the flag of its identifier from true to false or
   removes its entry. *)
C28_FlagMonotone ==
    [][\A a \in Analyses :
           (/\ Running(a)
            /\ an'[a].pc \notin {"idle", "done"}
            /\ is_cancelled(analysis_cancellations, an[a].session_id))
           => is_cancelled(analysis_cancellations', an[a].session_id)]_vars

\* the directory the request names once every symbolic link is resolved
ResolvedRoot == RealPath(NormPath(PathJoin(HostRoot, LStrip(s_req.search_path, SEP))), links)

\* path is the resolved base or lies below it
InsideBase(path) ==
    \/ path = BaseStr
    \/ /\ Len(path) > Len(BaseStr)
       /\ SubSeq(path, 1, Len(BaseStr) + 1) = BaseStr \o <<SEP>>

(* C29: whatever the search_path, a search walks only the base directory or a
   descendant of it after the resolution of symbolic links; a search whose root
   resolves elsewhere ends in error with no file examined. *)
C29_WalkInsideBase ==
    s_req # None =>
        /\ (s_pc \in {"walk", "finalize"} \/ s_walked > 0) => InsideBase(ResolvedRoot)
        /\ ~InsideBase(ResolvedRoot) =>
               (s_pc = "done" /\ s_status = "error" /\ s_total_files = 0 /\ s_results = 0)

\* files were examined below a base that is itself a symbolic link
C29_Witness ==
    /\ s_req # None
    /\ HostRoot \in DOMAIN links
    /\ s_req.search_path = <<"/", "a">>
    /\ InsideBase(ResolvedRoot)
    /\ s_total_files > 0

-----------------------------------------------------------------------------
(* delete_empty_directories (lines 1876-1966) *)

\* most entries of one request
MaxDirs == 3

\* the paths a request may name: ".." leaves the base, the last one carries the
\* base prefix and names the same directory as "b"
DeleteDirs ==
    { <<"a">>, <<"b">>, <<".", ".">>, HostRoot \o <<"/", "b">> }

\* the requests considered, the empty one included
DeleteRequests == UNION { [1..n -> DeleteDirs] : n \in 0..MaxDirs }

\* what a path is on disk: nothing, a regular file, an empty directory, a directory
\* with entries, or an empty directory whose parent refuses the removal
DirKinds == {"absent", "file", "empty", "full", "locked"}

\* the two directories below the base
DirA(lk) == RealPath(HostRoot, lk) \o <<"/", "a">>
DirB(lk) == RealPath(HostRoot, lk) \o <<"/", "b">>

\* the link configurations of a delete request: none, or "a" leading outside
DeleteLinks == { <<>>, (HostRoot \o <<"/", "a">>) :> <<"/", "e">> }

\* os.path.exists, os.path.isdir and os.listdir as one reading of the disk
KindOf(fs, path) == IF path \in DOMAIN fs THEN fs[path] ELSE "absent"

\* lines 1917-1941: the error of the three checks, "" when the path passes them
CheckError(kind) ==
    IF kind = "absent" THEN "Directory does not exist"
    ELSE IF kind = "file" THEN "Path is not a directory"
    ELSE IF kind = "full" THEN "Directory is not empty"
    ELSE ""

\* the mutant of ProcessEntry: a path the validator rejects is passed over
ProcessEntry_DropInvalid(dir_path, fs, lk, deleted, failed) ==
    LET v == validate_and_resolve_path(dir_path, HostRoot, lk) IN
    IF ~v.ok THEN [deleted |-> deleted, failed |-> failed, fs |-> fs]
    ELSE LET kind == KindOf(fs, v.path)
             err  == CheckError(kind) IN
         IF err # ""
         THEN [deleted |-> deleted,
               failed |-> Append(failed, [path |-> dir_path, error |-> err]),
               fs |-> fs]
         ELSE IF kind = "locked"
         THEN [deleted |-> deleted,
               failed |-> Append(failed, [path |-> dir_path, error |-> "Permission denied"]),
               fs |-> fs]
         ELSE [deleted |-> Append(deleted, dir_path),
               failed |-> failed,
               fs |-> [fs EXCEPT ![v.path] = "absent"]]

\* lines 1908-1956: one turn of the loop.  The HTTPException of the validator is
\* caught at line 1951, os.rmdir raises PermissionError for a locked directory
ProcessEntry(dir_path, fs, lk, deleted, failed) ==
    LET v == validate_and_resolve_path(dir_path, HostRoot, lk) IN
    IF ~v.ok
    THEN [deleted |-> deleted,
          failed |-> Append(failed, [path |-> dir_path,
                                     error |-> "Unable to delete directory"]),
          fs |-> fs]
    ELSE LET kind == KindOf(fs, v.path)
             err  == CheckError(kind) IN
         IF err # ""
         THEN [deleted |-> deleted,
               failed |-> Append(failed, [path |-> dir_path, error |-> err]),
               fs |-> fs]
         ELSE IF kind = "locked"
         THEN [deleted |-> deleted,
               failed |-> Append(failed, [path |-> dir_path, error |-> "Permission denied"]),
               fs |-> fs]
         ELSE [deleted |-> Append(deleted, dir_path),
               failed |-> failed,
               fs |-> [fs EXCEPT ![v.path] = "absent"]]

DeleteInit ==
    /\ links \in DeleteLinks
    /\ user_path = <<>>
    /\ vresult = None
    /\ vagain = None
    /\ SearchIdle
    /\ AnalysisIdle
    /\ HashIdle
    /\ NameIdle
    /\ TextIdle
    /\ ProbeIdle
    /\ WalkIdle
    /\ d_pc = "start"
    /\ d_req \in DeleteRequests
    /\ \E ka \in DirKinds, kb \in {"absent", "empty"} :
           d_fs = (DirA(links) :> ka) @@ (DirB(links) :> kb)
    /\ d_idx = 0
    /\ d_deleted = <<>>
    /\ d_failed = <<>>
    /\ d_result = <<>>

\* lines 1897-1906: a request without directories is answered with the error 400
DeleteStart ==
    /\ d_pc = "start"
    /\ IF d_req = <<>>
       THEN /\ d_pc' = "done"
            /\ d_result' = <<[status |-> 400, total_deleted |-> 0, total_failed |-> 0]>>
       ELSE /\ d_pc' = "loop"
            /\ d_result' = d_result
    /\ UNCHANGED <<d_req, d_fs, d_idx, d_deleted, d_failed>>
    /\ UNCHANGED <<links, pvars, svars, avars, hvars, nvars, tvars, kvars, wvars>>

\* lines 1908-1956: the loop takes the next entry of the request
DeleteOne ==
    /\ d_pc = "loop"
    /\ d_idx < Len(d_req)
    /\ LET out == ProcessEntry(d_req[d_idx + 1], d_fs, links, d_deleted, d_failed) IN
          /\ d_deleted' = out.deleted
          /\ d_failed' = out.failed
          /\ d_fs' = out.fs
    /\ d_idx' = d_idx + 1
    /\ d_pc' = IF d_idx + 1 = Len(d_req) THEN "result" ELSE "loop"
    /\ UNCHANGED <<d_req, d_result>>
    /\ UNCHANGED <<links, pvars, svars, avars, hvars, nvars, tvars, kvars, wvars>>

\* lines 1958-1965: the response
DeleteResult ==
    /\ d_pc = "result"
    /\ d_pc' = "done"
    /\ d_result' = <<[status |-> 200, total_deleted |-> Len(d_deleted),
                      total_failed |-> Len(d_failed)]>>
    /\ UNCHANGED <<d_req, d_fs, d_idx, d_deleted, d_failed>>
    /\ UNCHANGED <<links, pvars, svars, avars, hvars, nvars, tvars, kvars, wvars>>

\* between two turns of the loop another process fills or empties a directory
Disturb ==
    /\ d_pc = "loop"
    /\ d_idx > 0
    /\ \E p \in DOMAIN d_fs :
          /\ d_fs[p] \in {"empty", "full"}
          /\ d_fs' = [d_fs EXCEPT ![p] = IF d_fs[p] = "empty" THEN "full" ELSE "empty"]
    /\ UNCHANGED <<d_pc, d_req, d_idx, d_deleted, d_failed, d_result>>
    /\ UNCHANGED <<links, pvars, svars, avars, hvars, nvars, tvars, kvars, wvars>>

DeleteNext == DeleteStart \/ DeleteOne \/ DeleteResult \/ Disturb

DeleteSpec == DeleteInit /\ [][DeleteNext]_vars

\* how often x occurs in the sequence s
RECURSIVE CountIn(_, _)
CountIn(s, x) ==
    IF s = <<>> THEN 0
    ELSE (IF Head(s) = x THEN 1 ELSE 0) + CountIn(Tail(s), x)

\* the paths of the failed list
FailedPaths == [i \in 1..Len(d_failed) |-> d_failed[i].path]

\* every entry the loop has gone through is in one list and in one only
EntriesAccounted ==
    /\ Len(d_deleted) + Len(d_failed) = d_idx
    /\ \A p \in DeleteDirs :
           CountIn(d_deleted, p) + CountIn(FailedPaths, p)
               = CountIn(SubSeq(d_req, 1, d_idx), p)

\* the response counts every entry of the request
TotalsAddUp ==
    (d_pc = "done" /\ d_req # <<>>) =>
        /\ d_idx = Len(d_req)
        /\ d_result # <<>>
        /\ d_result[1].status = 200
        /\ d_result[1].total_deleted = Len(d_deleted)
        /\ d_result[1].total_failed = Len(d_failed)
        /\ d_result[1].total_deleted + d_result[1].total_failed = Len(d_req)

\* a turn of the loop changes the disk only by removing the directory its entry
\* names, which the validator accepted and which was an empty directory then
RemovesOnlyCheckedEmpty ==
    (d_idx' = d_idx + 1) =>
        LET dir_path == d_req[d_idx + 1]
            v == validate_and_resolve_path(dir_path, HostRoot, links)
        IN /\ (d_fs' # d_fs \/ d_deleted' # d_deleted) =>
                  /\ v.ok
                  /\ KindOf(d_fs, v.path) = "empty"
                  /\ d_fs' = [d_fs EXCEPT ![v.path] = "absent"]
                  /\ d_deleted' = Append(d_deleted, dir_path)
                  /\ d_failed' = d_failed
           /\ ~v.ok => (d_failed' = Append(d_failed, [path |-> dir_path,
                                       error |-> "Unable to delete directory"])
                        /\ d_pc' \in {"loop", "result"})

(* C30: delete_empty_directories removes a directory only when the validator
   accepted its path and the path was an existing empty directory when checked;
   every entry of the request goes to exactly one of deleted and failed, a
   rejected path going to failed without ending the loop, so that total_deleted
   plus total_failed is the number of entries requested. *)
C30_EveryEntryAccounted ==
    /\ [](EntriesAccounted /\ TotalsAddUp)
    /\ [][RemovesOnlyCheckedEmpty]_vars

\* a request whose first path was rejected and whose later path was deleted,
\* answered in full
C30_Witness ==
    /\ d_pc = "done"
    /\ Len(d_req) = MaxDirs
    /\ ~validate_and_resolve_path(d_req[1], HostRoot, links).ok
    /\ d_deleted # <<>>
    /\ Len(d_failed) >= 2

=============================================================================
